---- MODULE Spec2Model ----
(***************************************************************************)
(* Model of the MaestroOps helpers.                                        *)
(*                                                                         *)
(* Part 1: the AsyncModule task runner (maestro/core/module.py and its     *)
(* older revision maestro/internal/module.py) together with the polling    *)
(* loop of maestro/aws/s3.py.  Three kinds of control flow interleave: the *)
(* caller's thread (start, poll), the worker process of each pool, and the *)
(* pool's result-handler thread that runs the completion callback.         *)
(*                                                                         *)
(* Part 2: the CloudFormation stack operations of maestro/aws/cf_stack.py, *)
(* run against a provider whose answers are chosen nondeterministically.   *)
(*                                                                         *)
(* Parts 3 to 8: functions that are run once on inputs drawn from bounded  *)
(* sets: get_new_parameter_list_for_update (cf_stack.py),                  *)
(* update_document_in_region (ssm_documents.py), SingleObjectContainer     *)
(* (core/ioc.py), find_files and parse_s3_url (s3.py), parse_sysargs       *)
(* (core/execute.py).  Strings are sequences of one-character strings.     *)
(***************************************************************************)
EXTENDS Integers, Sequences, FiniteSets, TLC

(***************************************************************************)
(* Bounds                                                                  *)
(***************************************************************************)
\* number of start() calls made on the one AsyncModule instance
MaxStarts == 2
\* length of the region_list given to create_stack / update_stack
MaxRegions == 2
\* number of parameters of the stack given to get_new_parameter_list_for_update
MaxParams == 2
\* length of a parameter value and of expected_value
MaxValueLen == 1
\* number of objects created in a run of the container
MaxOid == 2
\* length of an S3 key and of the prefix given to find_files
MaxKeyLen == 2
\* number of objects in the bucket
MaxObjects == 2
\* length of what follows the scheme in the url given to parse_s3_url
MaxRest == 3
\* number of tokens of sys.argv[1:] and length of a token
MaxArgs == 3
MaxTokenLen == 2
MaxNames == 2
MaxItems == 3
MaxPage == 2

(***************************************************************************)
(* Part 1 - AsyncModule                                                    *)
(***************************************************************************)
\* Module states
NOT_STARTED == 0
RUNNING == 1
DONE == 2

\* The revisions of module.py
Revisions == {"core", "internal"}

\* Python objects that travel from run() to the parent.  "None" is Python's
\* None, "value" an ordinary object, "Exception" an instance of Exception
\* that is not the wrapper, "AsyncException" the error wrapper.
None == "None"
ReturnValues == {None, "value", "Exception"}

VARIABLES
    rev,          \* which revision of module.py is running
    status,       \* AsyncModule.status
    result,       \* AsyncModule.result
    exception,    \* AsyncModule.exception
    nstarts,      \* number of pools created by start()
    caller_pc,    \* position of the caller's thread
    tasks,        \* per start(): the task handed to that start's pool
    printed       \* number of "FATAL ERROR" lines printed by workers

avars == <<rev, status, result, exception, nstarts, caller_pc, tasks, printed>>

\* variables of part 2 (cf_stack.py)
VARIABLES
    op,             \* the operation of this run
    dryrun,         \* the dryrun argument
    nregions,       \* len(region_list)
    region,         \* index of the region being processed
    cf_pc,          \* position in the operation
    create,         \* update_stack_in_region: create
    cf_result,      \* update_stack_in_region: result
    stack_arn,      \* update_stack_in_region: stack_arn is set
    CURRENT_CHECK,  \* update_stack_in_region: CURRENT_CHECK
    stack_status,   \* update_stack_in_region: stack_status
    slept,          \* seconds spent in time.sleep during the current call
    polls,          \* status queries made by the poll loop of the current call
    calls,          \* per region: mutating provider calls issued
    rollback_seen,  \* per region: a poll saw a status containing ROLLBACK
    region_result,        \* per region: value returned for the region
    cf_raised,      \* exception that escaped the operation
    no_updates      \* per region: update_stack answered "No updates are to be performed"

cvars == <<op, dryrun, nregions, region, cf_pc, create, cf_result, stack_arn,
           CURRENT_CHECK, stack_status, slept, polls, calls, rollback_seen,
           region_result, cf_raised, no_updates>>

\* variables of part 3 (get_new_parameter_list_for_update)
VARIABLES
    gp_in,                \* the arguments of the call
    gp_pc,                \* position in the function
    gp_i,                 \* index of the next parameter of the for loop
    update_required,      \* local update_required
    new_parameters_list   \* local new_parameters_list

gvars == <<gp_in, gp_pc, gp_i, update_required, new_parameters_list>>

\* variables of part 4 (update_document_in_region)
VARIABLES
    ud_in,       \* the arguments of the call and the state of the file system
    ud_pc,       \* position in the function
    ud_result,   \* local result ("unbound" while it has no value)
    ud_return,   \* the value returned ("absent" before the return)
    ud_raised,   \* exception that escaped the function
    ud_calls     \* number of ssm.update_document calls made

dvars == <<ud_in, ud_pc, ud_result, ud_return, ud_raised, ud_calls>>

\* variables of part 5 (SingleObjectContainer)
VARIABLES
    ioc_pc,        \* "new" before the constructor has run, then "ready"
    object_type,   \* SingleObjectContainer.object_type
    objects,       \* SingleObjectContainer.__objects
    next_oid,      \* identity the next created object gets
    ioc_call,      \* the last method call and its arguments
    ioc_raised,    \* exception raised by the last call, or None
    ioc_returned   \* value returned by the last call, or None

ivars == <<ioc_pc, object_type, objects, next_oid, ioc_call, ioc_raised,
           ioc_returned>>

\* variables of part 6 (find_files)
VARIABLES
    ff_in,    \* the keys of the bucket in listing order, prefix, case_sensitive
    ff_pc,    \* position in the function
    ff_i,     \* index of the next object of the for loop
    files,    \* local files: the keys of the entries it holds
    sum_files \* local sum_files

fvars == <<ff_in, ff_pc, ff_i, files, sum_files>>

\* variables of part 7 (parse_s3_url)
VARIABLES
    url,         \* the argument
    pu_pc,       \* position in the function
    pu_index,    \* local index of the for loop
    bucket,      \* local bucket
    prefix,      \* local prefix
    pu_raised    \* exception raised, or None

uvars == <<url, pu_pc, pu_index, bucket, prefix, pu_raised>>

\* variables of part 8 (parse_sysargs)
VARIABLES
    argv,          \* sys.argv[1:]
    ps_pc,         \* position in the function
    ps_i,          \* index of the next token of the for loop
    current_key,   \* local current_key
    kwargs,        \* local kwargs
    args           \* local args

svars == <<argv, ps_pc, ps_i, current_key, kwargs, args>>

\* variables of part 9 (the multi-region wrappers)
VARIABLES
    wr_op,         \* the wrapper that is running
    region_list,   \* the argument region_list
    wr_i,          \* index of the next region of the for loop
    wr_result,     \* local result: the mapping built so far
    wr_pc,         \* position in the wrapper
    wr_raised      \* exception that escaped the wrapper

wvars == <<wr_op, region_list, wr_i, wr_result, wr_pc, wr_raised>>

\* variables of part 10 (the paginated list helpers)
VARIABLES
    pg_in,         \* the helper, the items the provider holds, its page size
    pg_pc,         \* position in the helper
    pg_collected,  \* the local list the pages are appended to
    pg_marker,     \* the continuation marker of the last answer (0: none)
    pg_calls,      \* number of list calls made
    pg_failed      \* a list call has failed with a client error

pvars == <<pg_in, pg_pc, pg_collected, pg_marker, pg_calls, pg_failed>>

\* variables of part 11 (delete_paramameter and delete_param_in_region)
VARIABLES
    dp_in,         \* the arguments: region_list and param_name
    dp_pc,         \* position in the wrapper
    dp_i,          \* index of the next region of the for loop
    dp_answers,    \* per region processed: the answer of the provider
    dp_result,     \* per region processed: the value returned for it
    dp_raised      \* exception that escaped the wrapper

evars == <<dp_in, dp_pc, dp_i, dp_answers, dp_result, dp_raised>>

vars == <<avars, cvars, gvars, dvars, ivars, fvars, uvars, svars, wvars, pvars,
         evars>>

\* the variables a part leaves alone: those of all other parts
notA == <<cvars, gvars, dvars, ivars, fvars, uvars, svars, wvars,
         pvars, evars>>
notC == <<avars, gvars, dvars, ivars, fvars, uvars, svars, wvars,
         pvars, evars>>
notG == <<avars, cvars, dvars, ivars, fvars, uvars, svars, wvars,
         pvars, evars>>
notD == <<avars, cvars, gvars, ivars, fvars, uvars, svars, wvars,
         pvars, evars>>
notI == <<avars, cvars, gvars, dvars, fvars, uvars, svars, wvars,
         pvars, evars>>
notF == <<avars, cvars, gvars, dvars, ivars, uvars, svars, wvars,
         pvars, evars>>
notU == <<avars, cvars, gvars, dvars, ivars, fvars, svars, wvars,
         pvars, evars>>
notS == <<avars, cvars, gvars, dvars, ivars, fvars, uvars, wvars,
         pvars, evars>>
notW == <<avars, cvars, gvars, dvars, ivars, fvars, uvars, svars,
         pvars, evars>>
notP == <<avars, cvars, gvars, dvars, ivars, fvars, uvars, svars,
         wvars, evars>>
notE == <<avars, cvars, gvars, dvars, ivars, fvars, uvars, svars,
         wvars, pvars>>

TaskIds == 1..MaxStarts

\* a task that has not been submitted yet
NoTask == [pc |-> "none", runs |-> 0, raised |-> FALSE, wrapfail |-> FALSE,
           payload |-> None, success |-> TRUE]

\* isinstance(results, Exception)
isinstance_Exception(results) == results \in {"Exception", "AsyncException"}

\* a finish that recognises only the wrapper as an error
finish_exception_WrapperOnly(results, old) ==
    IF results = "AsyncException" THEN results ELSE old

\* AsyncModule.finish: the value of the exception field after finish(results)
finish_exception(results, old) ==
    IF isinstance_Exception(results) THEN results ELSE old

\* a finish that stores whatever it is given in the result field
finish_result_Always(results, old) == results

\* AsyncModule.finish: the value of the result field after finish(results)
finish_result(results, old) ==
    IF isinstance_Exception(results) THEN old ELSE results

\* what __setup__ returns when wrapping the exception succeeded (line 136)
WrappedException == "AsyncException"

\* a handler that hands the second exception to the parent
WrapFailureReturn_Propagated == "Exception"

\* what __setup__ returns when wrapping itself failed: the inner handler
\* prints and falls off the end of the function (line 138)
WrapFailureReturn == None

\* AsyncModule.__init__
AsyncInit ==
    /\ rev \in Revisions
    /\ status = NOT_STARTED
    /\ result = None
    /\ exception = None
    /\ nstarts = 0
    /\ caller_pc = "idle"
    /\ tasks = [t \in TaskIds |-> NoTask]
    /\ printed = 0

\* start(), lines 120-121: a new pool is created and status is set to RUNNING
start_SetRunning ==
    /\ caller_pc = "idle"
    /\ nstarts < MaxStarts
    /\ nstarts' = nstarts + 1
    /\ status' = RUNNING
    /\ caller_pc' = "start_apply_async"
    /\ UNCHANGED <<notA, rev, result, exception, tasks, printed>>

\* start(), line 122: apply_async hands __setup__ to the new pool
start_ApplyAsync ==
    /\ caller_pc = "start_apply_async"
    /\ tasks' = [tasks EXCEPT ![nstarts].pc = "queued"]
    /\ caller_pc' = "start_return"
    /\ UNCHANGED <<notA, rev, status, result, exception, nstarts, printed>>

\* start(), line 123: start returns the ApplyResult to the caller
start_Return ==
    /\ caller_pc = "start_return"
    /\ caller_pc' = "idle"
    /\ UNCHANGED <<notA, rev, status, result, exception, nstarts, tasks, printed>>

\* a pool whose workers could take the same task more than once
WorkerRun_Again(t) ==
    /\ tasks[t].pc \in {"queued", "running"}
    /\ tasks' = [tasks EXCEPT ![t].pc = "running", ![t].runs = @ + 1]
    /\ UNCHANGED <<notA, rev, status, result, exception, nstarts, caller_pc, printed>>

\* the single worker of the pool takes the task and __setup__ calls run()
WorkerRun(t) ==
    /\ tasks[t].pc = "queued"
    /\ tasks' = [tasks EXCEPT ![t].pc = "running", ![t].runs = @ + 1]
    /\ UNCHANGED <<notA, rev, status, result, exception, nstarts, caller_pc, printed>>

\* run() returns v; __setup__ returns it and the worker sends it back
RunReturn(t, v) ==
    /\ tasks[t].pc = "running"
    /\ tasks' = [tasks EXCEPT ![t].pc = "sent", ![t].payload = v,
                              ![t].success = TRUE]
    /\ UNCHANGED <<notA, rev, status, result, exception, nstarts, caller_pc, printed>>

\* run() raises.  core: __setup__ catches it (line 132).  internal: __setup__
\* has no handler, the call fails and the pool reports the failure.
RunRaise(t) ==
    /\ tasks[t].pc = "running"
    /\ IF rev = "core"
       THEN tasks' = [tasks EXCEPT ![t].pc = "wrapping", ![t].raised = TRUE]
       ELSE tasks' = [tasks EXCEPT ![t].pc = "sent", ![t].raised = TRUE,
                                   ![t].payload = "Exception",
                                   ![t].success = FALSE]
    /\ UNCHANGED <<notA, rev, status, result, exception, nstarts, caller_pc, printed>>

\* core, lines 134-136: the exception is wrapped and the wrapper returned
WrapOk(t) ==
    /\ tasks[t].pc = "wrapping"
    /\ tasks' = [tasks EXCEPT ![t].pc = "sent",
                              ![t].payload = WrappedException,
                              ![t].success = TRUE]
    /\ UNCHANGED <<notA, rev, status, result, exception, nstarts, caller_pc, printed>>

\* core, lines 137-138: wrapping raised; the second exception is printed
WrapFail(t) ==
    /\ tasks[t].pc = "wrapping"
    /\ tasks' = [tasks EXCEPT ![t].pc = "sent", ![t].wrapfail = TRUE,
                              ![t].payload = WrapFailureReturn,
                              ![t].success = TRUE]
    /\ printed' = printed + 1
    /\ UNCHANGED <<notA, rev, status, result, exception, nstarts, caller_pc>>

\* __finish_internal__, line 144, run by the pool's result handler when the
\* call succeeded: status is set to DONE
finish_internal_SetDone(t) ==
    /\ tasks[t].pc = "sent"
    /\ tasks[t].success
    /\ status' = DONE
    /\ tasks' = [tasks EXCEPT ![t].pc = "callback"]
    /\ UNCHANGED <<notA, rev, result, exception, nstarts, caller_pc, printed>>

\* __finish_internal__, line 145: finish(callback_args)
finish_internal_Finish(t) ==
    /\ tasks[t].pc = "callback"
    /\ exception' = finish_exception(tasks[t].payload, exception)
    /\ result' = finish_result(tasks[t].payload, result)
    /\ tasks' = [tasks EXCEPT ![t].pc = "done"]
    /\ UNCHANGED <<notA, rev, status, nstarts, caller_pc, printed>>

\* apply_async applies the callback "unless the call failed": a failed call
\* only stores the error in the ApplyResult
CallFailed(t) ==
    /\ tasks[t].pc = "sent"
    /\ ~tasks[t].success
    /\ tasks' = [tasks EXCEPT ![t].pc = "failed"]
    /\ UNCHANGED <<notA, rev, status, result, exception, nstarts, caller_pc, printed>>

\* s3.py line 314: while s3dl.status != module.DONE
poll_Status ==
    /\ caller_pc = "idle"
    /\ nstarts >= 1
    /\ caller_pc' = IF status # DONE THEN "poll_in_loop" ELSE "poll_after_loop"
    /\ UNCHANGED <<notA, rev, status, result, exception, nstarts, tasks, printed>>

\* s3.py lines 315-318: inside the loop
poll_InLoop ==
    /\ caller_pc = "poll_in_loop"
    /\ caller_pc' = IF exception # None THEN "poll_raised" ELSE "idle"
    /\ UNCHANGED <<notA, rev, status, result, exception, nstarts, tasks, printed>>

\* s3.py lines 319-320: after the loop
poll_AfterLoop ==
    /\ caller_pc = "poll_after_loop"
    /\ caller_pc' = IF exception # None THEN "poll_raised" ELSE "poll_exited"
    /\ UNCHANGED <<notA, rev, status, result, exception, nstarts, tasks, printed>>

AsyncNext ==
    \/ start_SetRunning
    \/ start_ApplyAsync
    \/ start_Return
    \/ \E t \in TaskIds : WorkerRun(t)
    \/ \E t \in TaskIds, v \in ReturnValues : RunReturn(t, v)
    \/ \E t \in TaskIds : RunRaise(t)
    \/ \E t \in TaskIds : WrapOk(t)
    \/ \E t \in TaskIds : WrapFail(t)
    \/ \E t \in TaskIds : finish_internal_SetDone(t)
    \/ \E t \in TaskIds : finish_internal_Finish(t)
    \/ \E t \in TaskIds : CallFailed(t)
    \/ poll_Status
    \/ poll_InLoop
    \/ poll_AfterLoop


(***************************************************************************)
(* Part 2 - cf_stack.py                                                    *)
(***************************************************************************)
\* poll loop constants of update_stack_in_region
MAX_CHECKS == 60
SLEEP_SECONDS == 30
\* the wait after a rollback was seen (time.sleep(300))
ROLLBACK_WAIT_SECONDS == 300

\* A status string is the sequence of its words, joined by "_" in the code.
DOES_NOT_EXIST == <<"DOES", "NOT", "EXIST">>
Unknown == <<"Unknown">>
\* Python's None where a status string is expected (no status is empty)
NoStatus == <<>>
StackStatuses ==
    { <<"CREATE", "IN", "PROGRESS">>, <<"CREATE", "COMPLETE">>,
      <<"CREATE", "FAILED">>,
      <<"ROLLBACK", "IN", "PROGRESS">>, <<"ROLLBACK", "COMPLETE">>,
      <<"ROLLBACK", "FAILED">>,
      <<"UPDATE", "IN", "PROGRESS">>, <<"UPDATE", "COMPLETE">>,
      <<"UPDATE", "COMPLETE", "CLEANUP", "IN", "PROGRESS">>,
      <<"UPDATE", "ROLLBACK", "IN", "PROGRESS">>,
      <<"UPDATE", "ROLLBACK", "COMPLETE">>,
      <<"UPDATE", "ROLLBACK", "FAILED">>,
      <<"DELETE", "IN", "PROGRESS">> }

\* answers of the provider to describe_stacks: a stack with a status, a
\* ValidationError (no such stack), or another client error
DescribeAnswers ==
    [kind : {"stack"}, status : StackStatuses]
        \cup {[kind |-> "ValidationError"], [kind |-> "ClientError"]}
\* answers to validate_template
ValidateAnswers == {"ok", "ValidationError", "ClientError"}
\* answers to create_stack: HTTP 200 with a StackId, a response without one,
\* or a client error
CreateAnswers == {"accepted", "no_stack_id", "ClientError"}
\* answers to update_stack: as create_stack, plus the ValidationError
\* "No updates are to be performed"
UpdateAnswers == {"accepted", "no_stack_id", "NoUpdates", "ClientError"}
\* answers to delete_stack
DeleteAnswers == {"ok", "ClientError"}

\* the operations a run can perform
Operations == {"create_stack", "update_stack", "_update_stack_parameters"}

\* word in status  (the code's substring test, e.g. 'ROLLBACK' in stack_status)
Contains(stat, word) == \E i \in DOMAIN stat : stat[i] = word

\* a test for the word COMPLETE anywhere in the status
EndsWithComplete_Contains(stat) == Contains(stat, "COMPLETE")

\* stack_status.endswith('_COMPLETE')
EndsWithComplete(stat) == Len(stat) >= 2 /\ stat[Len(stat)] = "COMPLETE"

\* query_stack_status_in_region: the value returned for a provider answer
query_stack_status_in_region(ans) ==
    CASE ans.kind = "ValidationError" -> DOES_NOT_EXIST
      [] ans.kind = "ClientError" -> NoStatus
      [] OTHER -> ans.status

\* Python truth value of a returned object
Truthy(v) == v \in {"True", "StackId"}


RegionIds == 1..MaxRegions

CfInit ==
    /\ op \in Operations
    /\ dryrun \in BOOLEAN
    /\ nregions \in 1..MaxRegions
    /\ region = 1
    /\ cf_pc = "loop"
    /\ create = FALSE
    /\ cf_result = None
    /\ stack_arn = FALSE
    /\ CURRENT_CHECK = 0
    /\ stack_status = NoStatus
    /\ slept = 0
    /\ polls = 0
    /\ calls = [r \in RegionIds |-> {}]
    /\ rollback_seen = [r \in RegionIds |-> FALSE]
    /\ region_result = [r \in RegionIds |-> "absent"]
    /\ cf_raised = None
    /\ no_updates = [r \in RegionIds |-> FALSE]

\* no stack operation is running (the variables of part 2 while part 1 runs)
CfOff ==
    /\ op = "none"
    /\ dryrun = FALSE
    /\ nregions = 0
    /\ region = 1
    /\ cf_pc = "off"
    /\ create = FALSE
    /\ cf_result = None
    /\ stack_arn = FALSE
    /\ CURRENT_CHECK = 0
    /\ stack_status = NoStatus
    /\ slept = 0
    /\ polls = 0
    /\ calls = [r \in RegionIds |-> {}]
    /\ rollback_seen = [r \in RegionIds |-> FALSE]
    /\ region_result = [r \in RegionIds |-> "absent"]
    /\ cf_raised = None
    /\ no_updates = [r \in RegionIds |-> FALSE]

\* create_stack passes new_stack=True, update_stack leaves the default False
new_stack == op = "create_stack"

\* the call leaves update_stack_in_region through "return result"
ReturnResult(res) ==
    /\ cf_result' = res
    /\ cf_pc' = "return"

\* an exception leaves the operation
Raise(exc) ==
    /\ cf_raised' = exc
    /\ cf_pc' = "raised"

\* create_stack / update_stack: the loop over region_list calls
\* update_stack_in_region, whose lines 139-146 set result and create
wrapper_NextRegion ==
    /\ op \in {"create_stack", "update_stack"}
    /\ cf_pc = "loop"
    /\ region <= nregions
    /\ create' = new_stack
    /\ cf_result' = None
    /\ stack_arn' = FALSE
    /\ CURRENT_CHECK' = 0
    /\ stack_status' = NoStatus
    /\ slept' = 0
    /\ polls' = 0
    /\ cf_pc' = "validate"
    /\ UNCHANGED <<notC, no_updates, op, dryrun, nregions, region, calls, rollback_seen,
                   region_result, cf_raised>>

\* create_stack / update_stack: region_list is exhausted, return result
wrapper_Return ==
    /\ op \in {"create_stack", "update_stack"}
    /\ cf_pc = "loop"
    /\ region > nregions
    /\ cf_pc' = "finished"
    /\ UNCHANGED <<notC, no_updates, op, dryrun, nregions, region, create, cf_result, stack_arn,
                   CURRENT_CHECK, stack_status, slept, polls, calls,
                   rollback_seen, region_result, cf_raised>>

\* update_stack_in_region lines 150-159: validate the template
usir_Validate(ans) ==
    /\ cf_pc = "validate"
    /\ IF ans = "ok"
       THEN cf_pc' = "query" /\ UNCHANGED cf_result
       ELSE ReturnResult(cf_result)
    /\ UNCHANGED <<notC, no_updates, op, dryrun, nregions, region, create, stack_arn,
                   CURRENT_CHECK, stack_status, slept, polls, calls,
                   rollback_seen, region_result, cf_raised>>

\* update_stack_in_region lines 163-181: make sure the stack can be
\* created / updated
usir_Precheck(ans) ==
    /\ cf_pc = "query"
    /\ LET st == query_stack_status_in_region(ans) IN
       /\ stack_status' = st
       /\ IF st # NoStatus
          THEN IF new_stack
               THEN IF st # DOES_NOT_EXIST
                    THEN ReturnResult(cf_result) /\ UNCHANGED create
                    ELSE cf_pc' = "mutate" /\ UNCHANGED <<cf_result, create>>
               ELSE IF st = DOES_NOT_EXIST
                    THEN /\ create' = TRUE
                         /\ cf_pc' = "mutate"
                         /\ UNCHANGED cf_result
                    ELSE IF ~EndsWithComplete(st)
                         THEN ReturnResult(cf_result) /\ UNCHANGED create
                         ELSE /\ cf_pc' = "mutate"
                              /\ UNCHANGED <<cf_result, create>>
          ELSE ReturnResult(cf_result) /\ UNCHANGED create
    /\ UNCHANGED <<notC, no_updates, op, dryrun, nregions, region, stack_arn, CURRENT_CHECK,
                   slept, polls, calls, rollback_seen, region_result, cf_raised>>

\* line 210 and lines 212-217: with a stack_arn the poll loop starts,
\* without one the function returns result
AfterMutation(arn, res) ==
    /\ stack_arn' = arn
    /\ cf_result' = res
    /\ IF arn
       THEN /\ CURRENT_CHECK' = 0
            /\ stack_status' = Unknown
            /\ cf_pc' = "poll"
       ELSE /\ cf_pc' = "return"
            /\ UNCHANGED <<CURRENT_CHECK, stack_status>>

\* update_stack_in_region lines 185-192: create_stack (not in a try block)
usir_Create(ans) ==
    /\ cf_pc = "mutate"
    /\ create
    /\ calls' = [calls EXCEPT ![region] = @ \cup {"create_stack"}]
    /\ IF ans = "ClientError"
       THEN /\ Raise("ClientError")
            /\ UNCHANGED <<stack_arn, cf_result, CURRENT_CHECK, stack_status>>
       ELSE /\ AfterMutation(ans = "accepted", cf_result)
            /\ UNCHANGED cf_raised
    /\ UNCHANGED <<notC, no_updates, op, dryrun, nregions, region, create, slept, polls,
                   rollback_seen, region_result>>

\* update_stack_in_region lines 193-208: update_stack
usir_Update(ans) ==
    /\ cf_pc = "mutate"
    /\ ~create
    /\ calls' = [calls EXCEPT ![region] = @ \cup {"update_stack"}]
    /\ no_updates' = [no_updates EXCEPT ![region] = (ans = "NoUpdates")]
    /\ CASE ans = "ClientError" ->
              /\ ReturnResult(cf_result)
              /\ UNCHANGED <<stack_arn, CURRENT_CHECK, stack_status>>
         [] ans = "NoUpdates" -> AfterMutation(FALSE, "True")
         [] OTHER -> AfterMutation(ans = "accepted", cf_result)
    /\ UNCHANGED <<notC, op, dryrun, nregions, region, create, slept, polls,
                   rollback_seen, region_result, cf_raised>>

\* the loop body is left at its end (lines 249-250): count, sleep, and test
\* the loop condition again (line 218)
NextCheck ==
    /\ CURRENT_CHECK' = CURRENT_CHECK + 1
    /\ slept' = slept + SLEEP_SECONDS
    /\ cf_pc' = IF CURRENT_CHECK + 1 <= MAX_CHECKS THEN "poll" ELSE "after_loop"

\* update_stack_in_region lines 218-250: one pass of the poll loop
usir_Poll(ans) ==
    /\ cf_pc = "poll"
    /\ CURRENT_CHECK <= MAX_CHECKS
    /\ polls' = polls + 1
    /\ LET st == query_stack_status_in_region(ans) IN
       /\ stack_status' = st
       /\ CASE st = NoStatus ->
                 \* 'ROLLBACK' in None
                 /\ Raise("TypeError")
                 /\ UNCHANGED <<CURRENT_CHECK, slept, rollback_seen>>
            [] st # NoStatus /\ Contains(st, "ROLLBACK") ->
                 /\ rollback_seen' = [rollback_seen EXCEPT ![region] = TRUE]
                 /\ slept' = slept + ROLLBACK_WAIT_SECONDS
                 /\ cf_pc' = "rollback_query"
                 /\ UNCHANGED <<CURRENT_CHECK, cf_raised>>
            [] st # NoStatus /\ ~Contains(st, "ROLLBACK")
                    /\ Contains(st, "COMPLETE") ->
                 /\ cf_pc' = "after_loop"
                 /\ UNCHANGED <<CURRENT_CHECK, slept, rollback_seen, cf_raised>>
            [] OTHER ->
                 /\ NextCheck
                 /\ UNCHANGED <<rollback_seen, cf_raised>>
    /\ UNCHANGED <<notC, no_updates, op, dryrun, nregions, region, create, cf_result, stack_arn,
                   calls, region_result>>

\* a removal that does not look at create
RemovesUnstableStack_Always(created) == TRUE

\* line 238: if create, the unstable stack is removed
RemovesUnstableStack(created) == created

\* lines 224-243: after the wait the status is queried again and the events
\* are logged; a stack that was created goes on to be removed
usir_RollbackQuery(ans) ==
    /\ cf_pc = "rollback_query"
    /\ LET st == query_stack_status_in_region(ans) IN
       /\ stack_status' = st
       /\ IF st = NoStatus
          THEN \* 'FAILED' in None
               Raise("TypeError") /\ UNCHANGED cf_result
          ELSE /\ UNCHANGED cf_raised
               /\ IF RemovesUnstableStack(create)
                  THEN cf_pc' = "delete" /\ UNCHANGED cf_result
                  ELSE cf_result' = "False" /\ cf_pc' = "after_loop"
    /\ UNCHANGED <<notC, no_updates, op, dryrun, nregions, region, create, stack_arn,
                   CURRENT_CHECK, slept, polls, calls, rollback_seen, region_result>>

\* lines 238-243: delete_stack_in_region (not in a try block), then
\* result = False and break
usir_Delete(ans) ==
    /\ cf_pc = "delete"
    /\ calls' = [calls EXCEPT ![region] = @ \cup {"delete_stack"}]
    /\ IF ans = "ClientError"
       THEN Raise("ClientError") /\ UNCHANGED cf_result
       ELSE cf_result' = "False" /\ cf_pc' = "after_loop" /\ UNCHANGED cf_raised
    /\ UNCHANGED <<notC, no_updates, op, dryrun, nregions, region, create, stack_arn,
                   CURRENT_CHECK, stack_status, slept, polls, rollback_seen,
                   region_result>>

\* lines 251-254: the result after the loop
AfterLoopResult(check, stat, res) ==
    IF check > MAX_CHECKS /\ ~Contains(stat, "COMPLETE") THEN res ELSE "True"

\* update_stack_in_region lines 251-255
usir_AfterLoop ==
    /\ cf_pc = "after_loop"
    /\ ReturnResult(AfterLoopResult(CURRENT_CHECK, stack_status, cf_result))
    /\ UNCHANGED <<notC, no_updates, op, dryrun, nregions, region, create, stack_arn,
                   CURRENT_CHECK, stack_status, slept, polls, calls,
                   rollback_seen, region_result, cf_raised>>

\* the value returned by the call is stored by its caller: result[region] in
\* the wrappers, update_status in the command line
call_Return ==
    /\ cf_pc = "return"
    /\ region_result' = [region_result EXCEPT ![region] = cf_result]
    /\ region' = region + 1
    /\ cf_pc' = IF op = "_update_stack_parameters" THEN "finished" ELSE "loop"
    /\ UNCHANGED <<notC, no_updates, op, dryrun, nregions, create, cf_result, stack_arn,
                   CURRENT_CHECK, stack_status, slept, polls, calls,
                   rollback_seen, cf_raised>>

\* _update_stack_parameters lines 303-314: without a region it returns None,
\* with dryrun it falls through to "return False"
usp_Enter(region_given) ==
    /\ op = "_update_stack_parameters"
    /\ cf_pc = "loop"
    /\ region = 1
    /\ CASE ~region_given -> ReturnResult(None)
         [] region_given /\ dryrun -> ReturnResult("False")
         [] OTHER -> cf_pc' = "usp_describe" /\ UNCHANGED cf_result
    /\ UNCHANGED <<notC, no_updates, op, dryrun, nregions, region, create, stack_arn,
                   CURRENT_CHECK, stack_status, slept, polls, calls,
                   rollback_seen, region_result, cf_raised>>

\* _update_stack_parameters line 315: get_stack_with_name_or_id calls
\* describe_stacks outside any try block
usp_Describe(ans) ==
    /\ cf_pc = "usp_describe"
    /\ IF ans.kind \in {"ValidationError", "ClientError"}
       THEN Raise("ClientError")
       ELSE cf_pc' = "usp_update" /\ UNCHANGED cf_raised
    /\ UNCHANGED <<notC, no_updates, op, dryrun, nregions, region, create, cf_result, stack_arn,
                   CURRENT_CHECK, stack_status, slept, polls, calls,
                   rollback_seen, region_result>>

\* _update_stack_parameters lines 318-330: update_stack; the StackId is
\* returned, a client error is logged and False returned
usp_Update(ans) ==
    /\ cf_pc = "usp_update"
    /\ calls' = [calls EXCEPT ![region] = @ \cup {"update_stack"}]
    /\ no_updates' = [no_updates EXCEPT ![region] = (ans = "NoUpdates")]
    /\ CASE ans = "accepted" -> ReturnResult("StackId") /\ UNCHANGED cf_raised
         [] ans = "no_stack_id" ->
              \* the response has no 'StackId' key
              Raise("KeyError") /\ UNCHANGED cf_result
         [] OTHER -> ReturnResult("False") /\ UNCHANGED cf_raised
    /\ UNCHANGED <<notC, op, dryrun, nregions, region, create, stack_arn,
                   CURRENT_CHECK, stack_status, slept, polls, rollback_seen,
                   region_result>>

\* __main__ lines 587-593: the line reported for a region
ReportLine(r) == IF Truthy(region_result[r]) THEN "Success" ELSE "Failed"

CfNext ==
    \/ wrapper_NextRegion
    \/ wrapper_Return
    \/ \E ans \in ValidateAnswers : usir_Validate(ans)
    \/ \E ans \in DescribeAnswers : usir_Precheck(ans)
    \/ \E ans \in CreateAnswers : usir_Create(ans)
    \/ \E ans \in UpdateAnswers : usir_Update(ans)
    \/ \E ans \in DescribeAnswers : usir_Poll(ans)
    \/ \E ans \in DescribeAnswers : usir_RollbackQuery(ans)
    \/ \E ans \in DeleteAnswers : usir_Delete(ans)
    \/ usir_AfterLoop
    \/ call_Return
    \/ \E region_given \in BOOLEAN : usp_Enter(region_given)
    \/ \E ans \in DescribeAnswers : usp_Describe(ans)
    \/ \E ans \in UpdateAnswers : usp_Update(ans)

(***************************************************************************)
(* Strings                                                                 *)
(***************************************************************************)
\* the strings of at most n characters over an alphabet
Strings(alphabet, n) == UNION {[1..k -> alphabet] : k \in 0..n}

\* needle in haystack
IsSubstring(needle, haystack) ==
    \E i \in 0..(Len(haystack) - Len(needle)) :
        SubSeq(haystack, i + 1, i + Len(needle)) = needle

\* text.startswith(head)
StartsWith(text, head) ==
    Len(head) <= Len(text) /\ SubSeq(text, 1, Len(head)) = head

\* text.endswith(tail)
EndsWith(text, tail) ==
    /\ Len(tail) <= Len(text)
    /\ SubSeq(text, Len(text) - Len(tail) + 1, Len(text)) = tail

(***************************************************************************)
(* Part 3 - cf_stack.py, get_new_parameter_list_for_update                 *)
(***************************************************************************)
ParameterKeys == {"KeyA", "KeyB", "KeyC"}
ParameterValues == Strings({"a", "b"}, MaxValueLen)
NewValues == {<<"b">>, <<"n", "e", "w">>}

\* the Parameters of a stack: keys are unique within a stack
StackParameters ==
    {ps \in UNION {[1..k -> [ParameterKey : ParameterKeys,
                             ParameterValue : ParameterValues]] :
                      k \in 0..MaxParams} :
        \A i, j \in DOMAIN ps :
            ps[i].ParameterKey = ps[j].ParameterKey => i = j}

\* a test with the operands of "in" exchanged
ValueAccepted_Reversed(force, expected_value, value) ==
    force \/ IsSubstring(value, expected_value)

\* line 401: force or (expected_value in parameter['ParameterValue'])
ValueAccepted(force, expected_value, value) ==
    force \/ IsSubstring(expected_value, value)

\* lines 398-411: the entry built for one parameter
new_param(parameter, in) ==
    IF parameter.ParameterKey \in in.parameter_to_change
    THEN IF ValueAccepted(in.force, in.expected_value, parameter.ParameterValue)
         THEN [ParameterKey |-> parameter.ParameterKey,
               ParameterValue |-> in.new_value,
               PreviousValue |-> parameter.ParameterValue]
         ELSE [ParameterKey |-> parameter.ParameterKey,
               UsePreviousValue |-> TRUE]
    ELSE [ParameterKey |-> parameter.ParameterKey, UsePreviousValue |-> TRUE]

\* lines 395-396, with the arguments drawn from the bounded sets
GpInit ==
    /\ gp_in \in [Parameters : StackParameters,
                  expected_value : ParameterValues,
                  new_value : NewValues,
                  parameter_to_change : SUBSET ParameterKeys,
                  force : BOOLEAN]
    /\ gp_pc = "loop"
    /\ gp_i = 1
    /\ update_required = FALSE
    /\ new_parameters_list = <<>>

\* the function is not running
GpOff ==
    /\ gp_in = None
    /\ gp_pc = "off"
    /\ gp_i = 1
    /\ update_required = FALSE
    /\ new_parameters_list = <<>>

\* lines 397-412: one pass of the for loop
gp_Iterate ==
    /\ gp_pc = "loop"
    /\ gp_i <= Len(gp_in.Parameters)
    /\ LET parameter == gp_in.Parameters[gp_i]
           entry == new_param(parameter, gp_in)
       IN /\ new_parameters_list' = Append(new_parameters_list, entry)
          /\ update_required' =
                 (update_required \/ "ParameterValue" \in DOMAIN entry)
    /\ gp_i' = gp_i + 1
    /\ UNCHANGED <<notG, gp_in, gp_pc>>

\* line 413: return update_required, new_parameters_list
gp_Return ==
    /\ gp_pc = "loop"
    /\ gp_i > Len(gp_in.Parameters)
    /\ gp_pc' = "returned"
    /\ UNCHANGED <<notG, gp_in, gp_i, update_required, new_parameters_list>>

GpNext ==
    \/ gp_Iterate
    \/ gp_Return

(***************************************************************************)
(* Part 4 - ssm_documents.py, update_document_in_region                    *)
(***************************************************************************)
DuplicateDocumentContent == "DuplicateDocumentContent"
ErrorCodes == {DuplicateDocumentContent, "InvalidDocumentContent",
               "ThrottlingException"}

\* what ssm.update_document does: it returns a response (an empty one, one
\* without and one with a DocumentDescription) or raises a ClientError
UpdateDocumentAnswers ==
    [kind : {"response"},
     detail : {"empty", "no_description", "with_description"}]
        \cup [kind : {"ClientError"}, detail : ErrorCodes]

\* line 118: the arguments (empty or not), the state of the file system
\* and the answer the provider will give
UdInit ==
    /\ ud_in \in [region : {<<>>, <<"r">>},
                  content : {<<>>, <<"c">>},
                  version : {<<>>, <<"1">>},
                  content_is_file : BOOLEAN,
                  file_exists : BOOLEAN,
                  file_is_json : BOOLEAN,
                  answer : UpdateDocumentAnswers]
    /\ ud_pc = "check_region"
    /\ ud_result = "unbound"
    /\ ud_return = "absent"
    /\ ud_raised = None
    /\ ud_calls = 0

\* return value from the function
ud_ReturnValue(value) ==
    /\ ud_pc' = "returned"
    /\ ud_return' = value
    /\ UNCHANGED <<notD, ud_in, ud_result, ud_raised, ud_calls>>

\* lines 119-121
ud_CheckRegion ==
    /\ ud_pc = "check_region"
    /\ IF ud_in.region = <<>>
       THEN ud_ReturnValue("False")
       ELSE /\ ud_pc' = "check_content"
            /\ UNCHANGED <<notD, ud_in, ud_result, ud_return, ud_raised,
                           ud_calls>>

\* lines 123-125
ud_CheckContent ==
    /\ ud_pc = "check_content"
    /\ IF ud_in.content = <<>>
       THEN ud_ReturnValue("False")
       ELSE /\ ud_pc' = "check_file"
            /\ UNCHANGED <<notD, ud_in, ud_result, ud_return, ud_raised,
                           ud_calls>>

\* lines 127-134
ud_CheckFile ==
    /\ ud_pc = "check_file"
    /\ IF ud_in.content_is_file /\ ~ud_in.file_exists
       THEN ud_ReturnValue("False")
       ELSE /\ ud_pc' = "parse_file"
            /\ UNCHANGED <<notD, ud_in, ud_result, ud_return, ud_raised,
                           ud_calls>>

\* lines 136-140: parse_file_into_json_string raises on a file that is not
\* JSON (lines 34-36); the exception leaves the function
ud_ParseFile ==
    /\ ud_pc = "parse_file"
    /\ IF ud_in.content_is_file /\ ~ud_in.file_is_json
       THEN /\ ud_pc' = "raised"
            /\ ud_raised' = "ValueError"
       ELSE /\ ud_pc' = "try"
            /\ UNCHANGED ud_raised
    /\ UNCHANGED <<notD, ud_in, ud_result, ud_return, ud_calls>>

\* lines 142-145: the call succeeds and result is bound
ud_TryOk ==
    /\ ud_pc = "try"
    /\ ud_in.answer.kind = "response"
    /\ ud_calls' = ud_calls + 1
    /\ ud_result' = ud_in.answer.detail
    /\ ud_pc' = "after_try"
    /\ UNCHANGED <<notD, ud_in, ud_return, ud_raised>>

\* lines 142-150: the call raises ClientError; result stays unbound
ud_TryExcept ==
    /\ ud_pc = "try"
    /\ ud_in.answer.kind = "ClientError"
    /\ ud_calls' = ud_calls + 1
    /\ IF ud_in.answer.detail = DuplicateDocumentContent
       THEN /\ ud_pc' = "returned"
            /\ ud_return' = "True"
       ELSE /\ ud_pc' = "after_try"
            /\ UNCHANGED ud_return
    /\ UNCHANGED <<notD, ud_in, ud_result, ud_raised>>

\* lines 152-157: reading the unbound local result raises UnboundLocalError
ud_AfterTry ==
    /\ ud_pc = "after_try"
    /\ IF ud_result = "unbound"
       THEN /\ ud_pc' = "raised"
            /\ ud_raised' = "UnboundLocalError"
            /\ UNCHANGED ud_return
       ELSE /\ ud_pc' = "returned"
            /\ ud_return' = IF ud_result = "with_description"
                            THEN "True" ELSE "False"
            /\ UNCHANGED ud_raised
    /\ UNCHANGED <<notD, ud_in, ud_result, ud_calls>>

UdNext ==
    \/ ud_CheckRegion
    \/ ud_CheckContent
    \/ ud_CheckFile
    \/ ud_ParseFile
    \/ ud_TryOk
    \/ ud_TryExcept
    \/ ud_AfterTry

(***************************************************************************)
(* Part 5 - ioc.py, SingleObjectContainer                                  *)
(*                                                                         *)
(* An object is a record of its class and its identity.  The classes are   *)
(* ordinary classes whose constructor takes no required argument, as       *)
(* Module and AsyncModule are (module.py lines 62 and 109).                *)
(***************************************************************************)
Types == {"Module", "AsyncModule", "AsyncException"}

\* class AsyncModule(Module): module.py line 98
Subclass(t, u) == t = u \/ (t = "AsyncModule" /\ u = "Module")

\* the object None
NoneObj == [type |-> "NoneType", oid |-> 0]

\* a value that is not a class, given as obj_type
NotAType == "NotAType"
ObjTypeArgs == Types \cup {None, NotAType}

\* ids: strings, None and a value that is not a string
Ids == {"a", "b"}
NoneId == None
NonStrId == "1"
IdArgs == Ids \cup {NoneId, NonStrId}

\* a test that accepts every object
isinstance_obj_Any(obj, t) == TRUE

\* isinstance(obj, t) for a class t
isinstance_obj(obj, t) == Subclass(obj.type, t)

\* the objects the container holds
HeldObjects == {objects[k] : k \in DOMAIN objects}

\* the objects a caller can pass: None, an object created for the call, an
\* object that is already in the container
ObjArgs ==
    {NoneObj} \cup HeldObjects
        \cup {[type |-> t, oid |-> next_oid] : t \in
                  IF next_oid <= MaxOid THEN Types ELSE {}}

\* lines 38-39: object_type after the first three checks have passed
register_object_type(obj, ot) == IF ot = None THEN obj.type ELSE ot

\* register without the check of line 44
register_raises_NoDuplicateCheck(id, obj, ot, objs) ==
    IF obj = NoneObj THEN "TypeError"
    ELSE IF id = NoneId THEN "TypeError"
    ELSE IF id \notin Ids THEN "TypeError"
    ELSE IF register_object_type(obj, ot) \notin Types THEN "TypeError"
    ELSE IF ~isinstance_obj(obj, register_object_type(obj, ot))
         THEN "TypeError"
    ELSE None

\* lines 29-45: the exception register raises, or None; isinstance itself
\* raises TypeError when its second argument is not a class
register_raises(id, obj, ot, objs) ==
    IF obj = NoneObj THEN "TypeError"
    ELSE IF id = NoneId THEN "TypeError"
    ELSE IF id \notin Ids THEN "TypeError"
    ELSE IF register_object_type(obj, ot) \notin Types THEN "TypeError"
    ELSE IF ~isinstance_obj(obj, register_object_type(obj, ot))
         THEN "TypeError"
    ELSE IF id \in DOMAIN objs THEN "ValueError"
    ELSE None

\* a deregister that empties the container
deregister_objects_Clear(id, objs) ==
    [k \in {} |-> NoneObj]

\* line 57: del self.__objects[id]
deregister_objects(id, objs) ==
    [k \in DOMAIN objs \ {id} |-> objs[k]]

\* a getinstance that hands out the registered object
getinstance_returned_Same(id, objs, oid) == objs[id]

\* lines 65-67: type(self[id])()
getinstance_returned(id, objs, oid) == [type |-> objs[id].type, oid |-> oid]

\* the class attributes of lines 19-20, before __init__ has run
IocInit ==
    /\ ioc_pc = "new"
    /\ object_type = None
    /\ objects = <<>>
    /\ next_oid = 1
    /\ ioc_call = [method |-> "none", id |-> NoneId, obj |-> NoneObj]
    /\ ioc_raised = None
    /\ ioc_returned = NoneObj

\* lines 22-26: the test of line 23 is never taken, object_type being None
ioc_init ==
    /\ ioc_pc = "new"
    /\ \E obj_type \in ObjTypeArgs :
           /\ IF object_type # None
              THEN /\ ioc_raised' = "NameError"
                   /\ UNCHANGED object_type
              ELSE /\ ioc_raised' = None
                   /\ object_type' = obj_type
    /\ objects' = <<>>
    /\ ioc_pc' = "ready"
    /\ ioc_call' = [method |-> "__init__", id |-> NoneId, obj |-> NoneObj]
    /\ UNCHANGED <<notI, next_oid, ioc_returned>>

\* lines 28-47
register(id, obj) ==
    LET exc == register_raises(id, obj, object_type, objects)
        checked == obj # NoneObj /\ id \in Ids
    IN /\ ioc_call' = [method |-> "register", id |-> id, obj |-> obj]
       /\ ioc_raised' = exc
       /\ ioc_returned' = NoneObj
       /\ object_type' = IF checked
                         THEN register_object_type(obj, object_type)
                         ELSE object_type
       /\ objects' = IF exc = None THEN (id :> obj) @@ objects ELSE objects
       /\ next_oid' = IF obj.oid = next_oid THEN next_oid + 1 ELSE next_oid
       /\ UNCHANGED <<notI, ioc_pc>>

ioc_register ==
    /\ ioc_pc = "ready"
    /\ \E id \in IdArgs, obj \in ObjArgs : register(id, obj)

\* lines 49-57
deregister(method, id) ==
    /\ ioc_call' = [method |-> method, id |-> id, obj |-> NoneObj]
    /\ ioc_returned' = NoneObj
    /\ IF id \notin DOMAIN objects
       THEN /\ ioc_raised' = "ValueError"
            /\ UNCHANGED objects
       ELSE /\ ioc_raised' = None
            /\ objects' = deregister_objects(id, objects)
    /\ UNCHANGED <<notI, ioc_pc, object_type, next_oid>>

ioc_deregister ==
    /\ ioc_pc = "ready"
    /\ \E id \in IdArgs : deregister("deregister", id)

\* lines 69-70
ioc_unregister ==
    /\ ioc_pc = "ready"
    /\ \E id \in IdArgs : deregister("unregister", id)

\* lines 59-67
getinstance(id) ==
    /\ ioc_call' = [method |-> "getinstance", id |-> id, obj |-> NoneObj]
    /\ IF id \notin DOMAIN objects
       THEN /\ ioc_raised' = "ValueError"
            /\ ioc_returned' = NoneObj
            /\ UNCHANGED next_oid
       ELSE /\ ioc_raised' = None
            /\ ioc_returned' = getinstance_returned(id, objects, next_oid)
            /\ next_oid' = next_oid + 1
    /\ UNCHANGED <<notI, ioc_pc, object_type, objects>>

ioc_getinstance ==
    /\ ioc_pc = "ready"
    /\ next_oid <= MaxOid
    /\ \E id \in IdArgs : getinstance(id)

\* lines 72-76
getitem(method, id) ==
    /\ ioc_call' = [method |-> method, id |-> id, obj |-> NoneObj]
    /\ IF id \notin DOMAIN objects
       THEN /\ ioc_raised' = "KeyError"
            /\ ioc_returned' = NoneObj
       ELSE /\ ioc_raised' = None
            /\ ioc_returned' = objects[id]
    /\ UNCHANGED <<notI, ioc_pc, object_type, objects, next_oid>>

ioc_getitem ==
    /\ ioc_pc = "ready"
    /\ \E id \in IdArgs : getitem("__getitem__", id)

\* lines 78-79
ioc_get ==
    /\ ioc_pc = "ready"
    /\ \E id \in IdArgs : getitem("get", id)

IocNext ==
    \/ ioc_init
    \/ ioc_register
    \/ ioc_deregister
    \/ ioc_unregister
    \/ ioc_getinstance
    \/ ioc_getitem
    \/ ioc_get

(***************************************************************************)
(* Part 6 - s3.py, find_files                                              *)
(***************************************************************************)
KeyChars == {"/", "A", "a"}

\* the code point order of the characters of a key
CharRank(c) == CASE c = "/" -> 47 [] c = "A" -> 65 [] OTHER -> 97

\* str.lower() of one character
lower_char(c) == IF c = "A" THEN "a" ELSE c

\* str.lower()
lower(text) == [i \in DOMAIN text |-> lower_char(text[i])]

\* keys of objects: not empty
Keys == Strings(KeyChars, MaxKeyLen) \ {<<>>}

\* key1 comes before key2 in a listing of the bucket
RECURSIVE KeyLess(_, _)
KeyLess(key1, key2) ==
    IF key2 = <<>> THEN FALSE
    ELSE IF key1 = <<>> THEN TRUE
    ELSE IF key1[1] # key2[1] THEN CharRank(key1[1]) < CharRank(key2[1])
    ELSE KeyLess(Tail(key1), Tail(key2))

\* remote_bucket.objects.all(): the keys of the bucket, in the order of a
\* listing
Listings ==
    {l \in UNION {[1..k -> Keys] : k \in 0..MaxObjects} :
        \A i, j \in DOMAIN l : i < j => KeyLess(l[i], l[j])}

\* line 54: remote_bucket.objects.filter(Prefix=prefix), the keys that begin
\* with Prefix
filter(listing, Prefix) ==
    LET begins(key) == StartsWith(key, Prefix)
    IN SelectSeq(listing, begins)

\* line 50: the test of the case insensitive mode
matches(key, pfx) ==
    StartsWith(lower(key), lower(pfx)) /\ ~EndsWith(key, <<"/">>)

\* lines 13-44: the arguments, the content of the bucket, and whether
\* verify_bucket can reach the bucket
FfInit ==
    /\ ff_in \in [objects : Listings,
                  prefix : Strings(KeyChars, MaxKeyLen),
                  case_sensitive : BOOLEAN,
                  reachable : BOOLEAN]
    /\ ff_pc = "verify"
    /\ ff_i = 1
    /\ files = <<>>
    /\ sum_files = <<>>

\* lines 23-47: verify_bucket raises when the bucket cannot be reached,
\* otherwise the mode is chosen
ff_Verify ==
    /\ ff_pc = "verify"
    /\ ff_pc' = IF ~ff_in.reachable THEN "raised"
                ELSE IF ~ff_in.case_sensitive THEN "loop_all"
                ELSE "filter"
    /\ UNCHANGED <<notF, ff_in, ff_i, files, sum_files>>

\* lines 49-52: one pass of the loop over all the objects
ff_IterateAll ==
    /\ ff_pc = "loop_all"
    /\ ff_i <= Len(ff_in.objects)
    /\ files' = IF matches(ff_in.objects[ff_i], ff_in.prefix)
                THEN Append(files, ff_in.objects[ff_i])
                ELSE files
    /\ ff_i' = ff_i + 1
    /\ UNCHANGED <<notF, ff_in, ff_pc, sum_files>>

\* line 54
ff_Filter ==
    /\ ff_pc = "filter"
    /\ files' = filter(ff_in.objects, ff_in.prefix)
    /\ ff_pc' = "loop_filtered"
    /\ UNCHANGED <<notF, ff_in, ff_i, sum_files>>

\* lines 56-58: one pass of the loop over the filtered objects
ff_IterateFiltered ==
    /\ ff_pc = "loop_filtered"
    /\ ff_i <= Len(files)
    /\ sum_files' = Append(sum_files, files[ff_i])
    /\ ff_i' = ff_i + 1
    /\ UNCHANGED <<notF, ff_in, ff_pc, files>>

\* lines 59-61 after the loop of the case sensitive mode
ff_ReturnFiltered ==
    /\ ff_pc = "loop_filtered"
    /\ ff_i > Len(files)
    /\ files' = sum_files
    /\ ff_pc' = "returned"
    /\ UNCHANGED <<notF, ff_in, ff_i, sum_files>>

\* line 61 after the loop of the case insensitive mode
ff_ReturnAll ==
    /\ ff_pc = "loop_all"
    /\ ff_i > Len(ff_in.objects)
    /\ ff_pc' = "returned"
    /\ UNCHANGED <<notF, ff_in, ff_i, files, sum_files>>

FfNext ==
    \/ ff_Verify
    \/ ff_IterateAll
    \/ ff_Filter
    \/ ff_IterateFiltered
    \/ ff_ReturnFiltered
    \/ ff_ReturnAll

(***************************************************************************)
(* Part 7 - s3.py, parse_s3_url                                            *)
(***************************************************************************)
S3Scheme == <<"s", "3", ":", "/", "/">>

\* how a url begins: the scheme, the scheme less a slash, the scheme in
\* capitals, nothing
UrlHeads == {S3Scheme, <<"s", "3", ":", "/">>, <<"S", "3", ":", "/", "/">>,
             <<>>}
UrlChars == {"b", "c", "/"}
Urls == {head \o rest : head \in UrlHeads, rest \in Strings(UrlChars, MaxRest)}

\* a slice that keeps the '/'
prefix_slice_WithSlash(text, index) == SubSeq(text, index + 6, Len(text))

\* line 91: url[(index+6):], index counting from 0
prefix_slice(text, index) == SubSeq(text, index + 7, Len(text))

\* url[5:]
url_tail(text) == SubSeq(text, 6, Len(text))

UrlInit ==
    /\ url \in Urls
    /\ pu_pc = "check_scheme"
    /\ pu_index = 0
    /\ bucket = <<>>
    /\ prefix = <<>>
    /\ pu_raised = None

\* lines 81-86
pu_CheckScheme ==
    /\ pu_pc = "check_scheme"
    /\ IF ~StartsWith(url, S3Scheme)
       THEN pu_pc' = "raised" /\ pu_raised' = "ValueError"
       ELSE pu_pc' = "loop" /\ UNCHANGED pu_raised
    /\ UNCHANGED <<notU, url, pu_index, bucket, prefix>>

\* lines 87-94: one pass of the loop over url[5:]
pu_Loop ==
    /\ pu_pc = "loop"
    /\ pu_index < Len(url_tail(url))
    /\ LET char == url_tail(url)[pu_index + 1]
       IN IF char = "/"
          THEN /\ prefix' = prefix_slice(url, pu_index)
               /\ pu_pc' = "check_bucket"
               /\ UNCHANGED <<bucket, pu_index>>
          ELSE /\ bucket' = Append(bucket, char)
               /\ pu_index' = pu_index + 1
               /\ UNCHANGED <<prefix, pu_pc>>
    /\ UNCHANGED <<notU, url, pu_raised>>

\* line 87: the loop has gone through url[5:] without a break
pu_LoopEnd ==
    /\ pu_pc = "loop"
    /\ pu_index >= Len(url_tail(url))
    /\ pu_pc' = "check_bucket"
    /\ UNCHANGED <<notU, url, pu_index, bucket, prefix, pu_raised>>

\* lines 96-102
pu_Return ==
    /\ pu_pc = "check_bucket"
    /\ IF bucket = <<>>
       THEN /\ pu_pc' = "raised"
            /\ pu_raised' = "ValueError"
            /\ UNCHANGED prefix
       ELSE /\ pu_pc' = "returned"
            /\ prefix' = IF prefix = <<>> THEN <<"/">> ELSE prefix
            /\ UNCHANGED pu_raised
    /\ UNCHANGED <<notU, url, pu_index, bucket>>

UrlNext ==
    \/ pu_CheckScheme
    \/ pu_Loop
    \/ pu_LoopEnd
    \/ pu_Return

(***************************************************************************)
(* Part 8 - execute.py, parse_sysargs                                      *)
(*                                                                         *)
(* current_key is <<>> for None and <<key>> for a key; a value of kwargs   *)
(* is <<>> for None and <<token>> for a token.                             *)
(***************************************************************************)
TokenChars == {"-", "a"}
Tokens == Strings(TokenChars, MaxTokenLen)
Argvs == UNION {[1..k -> Tokens] : k \in 0..MaxArgs}

\* arg.startswith('-')
IsOption(arg) == StartsWith(arg, <<"-">>)

\* arg.lstrip('-')
RECURSIVE lstrip(_)
lstrip(arg) ==
    IF arg # <<>> /\ arg[1] = "-" THEN lstrip(Tail(arg)) ELSE arg

\* an assignment that keeps the value of a key that is already present
setitem_KeepFirst(dict, key, value) ==
    [k \in DOMAIN dict \cup {key} |->
        IF k \in DOMAIN dict THEN dict[k] ELSE value]

\* kwargs[key] = value
setitem(dict, key, value) ==
    [k \in DOMAIN dict \cup {key} |-> IF k = key THEN value ELSE dict[k]]

\* lines 28-30
ArgsInit ==
    /\ argv \in Argvs
    /\ ps_pc = "loop"
    /\ ps_i = 1
    /\ current_key = <<>>
    /\ kwargs = <<>>
    /\ args = <<>>

\* lines 32-44: one pass of the for loop
ps_Loop ==
    /\ ps_pc = "loop"
    /\ ps_i <= Len(argv)
    /\ LET arg == argv[ps_i]
       IN IF current_key = <<>>
          THEN IF IsOption(arg)
               THEN /\ current_key' = <<lstrip(arg)>>
                    /\ UNCHANGED <<kwargs, args>>
               ELSE /\ args' = Append(args, arg)
                    /\ UNCHANGED <<kwargs, current_key>>
          ELSE IF ~IsOption(arg)
               THEN /\ kwargs' = setitem(kwargs, current_key[1], <<arg>>)
                    /\ current_key' = <<>>
                    /\ UNCHANGED args
               ELSE /\ kwargs' = setitem(kwargs, current_key[1], <<>>)
                    /\ current_key' = <<lstrip(arg)>>
                    /\ UNCHANGED args
    /\ ps_i' = ps_i + 1
    /\ UNCHANGED <<notS, argv, ps_pc>>

\* lines 45-51: after the loop
ps_Return ==
    /\ ps_pc = "loop"
    /\ ps_i > Len(argv)
    /\ IF current_key # <<>> /\ current_key[1] \notin DOMAIN kwargs
       THEN /\ kwargs' = setitem(kwargs, current_key[1], <<>>)
            /\ current_key' = <<>>
       ELSE UNCHANGED <<kwargs, current_key>>
    /\ ps_pc' = "returned"
    /\ UNCHANGED <<notS, argv, ps_i, args>>

ArgsNext ==
    \/ ps_Loop
    \/ ps_Return

\* the functions of parts 4 to 8 are not running
UdOff ==
    /\ ud_in = None
    /\ ud_pc = "off"
    /\ ud_result = "unbound"
    /\ ud_return = "absent"
    /\ ud_raised = None
    /\ ud_calls = 0

IocOff ==
    /\ ioc_pc = "off"
    /\ object_type = None
    /\ objects = <<>>
    /\ next_oid = 1
    /\ ioc_call = None
    /\ ioc_raised = None
    /\ ioc_returned = [type |-> "NoneType", oid |-> 0]

FfOff ==
    /\ ff_in = None
    /\ ff_pc = "off"
    /\ ff_i = 1
    /\ files = <<>>
    /\ sum_files = <<>>

UrlOff ==
    /\ url = <<>>
    /\ pu_pc = "off"
    /\ pu_index = 0
    /\ bucket = <<>>
    /\ prefix = <<>>
    /\ pu_raised = None

ArgsOff ==
    /\ argv = <<>>
    /\ ps_pc = "off"
    /\ ps_i = 1
    /\ current_key = <<>>
    /\ kwargs = <<>>
    /\ args = <<>>

WrOff ==
    /\ wr_op = "none"
    /\ region_list = <<>>
    /\ wr_i = 1
    /\ wr_result = <<>>
    /\ wr_pc = "off"
    /\ wr_raised = None

PgOff ==
    /\ pg_in = None
    /\ pg_pc = "off"
    /\ pg_collected = <<>>
    /\ pg_marker = 0
    /\ pg_calls = 0
    /\ pg_failed = FALSE

DpOff ==
    /\ dp_in = None
    /\ dp_pc = "off"
    /\ dp_i = 1
    /\ dp_answers = <<>>
    /\ dp_result = <<>>
    /\ dp_raised = None

(***************************************************************************)
(* Part 9 - the multi-region wrappers query_stack_status (cf_stack.py),    *)
(* get_parameter (parameter_store.py), table_exists and create_table       *)
(* (dynamodb.py)                                                           *)
(***************************************************************************)
WrapperOps == {"query_stack_status", "get_parameter", "table_exists",
               "create_table"}
RegionNames == {"us-east-1", "eu-west-1"}
RegionLists == UNION {[1..k -> RegionNames] : k \in 0..MaxRegions}

\* what the provider answers in a region: the stack, parameter or table is
\* there, it is not, or the call fails with another client error
WrapperAnswers == {"found", "not_found", "ClientError"}

\* the client error leaves the function: query_stack_status_in_region
\* catches it (cf_stack.py lines 63-68), get_param_from_region has no try
\* (parameter_store.py line 48), table_exists_in_region raises it again
\* (dynamodb.py lines 70-72)
in_region_raises(wop, ans) ==
    ans = "ClientError" /\ wop # "query_stack_status"

\* the value the function called for one region returns
in_region_value(wop, ans) ==
    CASE wop = "query_stack_status" ->
             (CASE ans = "found" -> "StackStatus"
                [] ans = "not_found" -> "DOES_NOT_EXIST"
                [] OTHER -> "None")
      [] wop = "get_parameter" ->
             IF ans = "found" THEN "Value" ELSE "None"
      [] wop = "table_exists" ->
             IF ans = "found" THEN "True" ELSE "False"
      \* create_table_in_region is not implemented and returns False
      [] OTHER -> "False"

\* dynamodb.py lines 330-333: create_table stores nothing for a region in
\* which the table exists; the other wrappers store what the call returns
stores_result(wop, ans) == ~(wop = "create_table" /\ ans = "found")

\* result = {}
WrInit ==
    /\ wr_op \in WrapperOps
    /\ region_list \in RegionLists
    /\ wr_i = 1
    /\ wr_result = <<>>
    /\ wr_pc = "loop"
    /\ wr_raised = None

\* one pass of "for region in region_list"
wr_Iterate ==
    /\ wr_pc = "loop"
    /\ wr_i <= Len(region_list)
    /\ \E ans \in WrapperAnswers :
           IF in_region_raises(wr_op, ans)
           THEN /\ wr_pc' = "raised"
                /\ wr_raised' = "ClientError"
                /\ UNCHANGED <<wr_i, wr_result>>
           ELSE /\ wr_result' =
                       IF stores_result(wr_op, ans)
                       THEN setitem(wr_result, region_list[wr_i],
                                    in_region_value(wr_op, ans))
                       ELSE wr_result
                /\ wr_i' = wr_i + 1
                /\ UNCHANGED <<wr_pc, wr_raised>>
    /\ UNCHANGED <<notW, wr_op, region_list>>

\* return result
wr_Return ==
    /\ wr_pc = "loop"
    /\ wr_i > Len(region_list)
    /\ wr_pc' = "returned"
    /\ UNCHANGED <<notW, wr_op, region_list, wr_i, wr_result, wr_raised>>

WrNext ==
    \/ wr_Iterate
    \/ wr_Return

(***************************************************************************)
(* Part 11 - delete_paramameter and delete_param_in_region                 *)
(* (parameter_store.py lines 140-176) and the line the command line        *)
(* prints for a region (lines 236-239)                                     *)
(***************************************************************************)
\* a region of the list may be the empty string, and so may param_name
DpRegions == RegionNames \cup {""}
DpRegionLists == UNION {[1..k -> DpRegions] : k \in 1..MaxRegions}
DpParamNames == {"", "/app/key"}

\* what ssm.delete_parameter does: a response with HTTPStatusCode 200, a
\* response without ResponseMetadata, or a ClientError with the given code
DeleteParameterAnswers == {"200", "NoMetadata", "ParameterNotFound",
                           "AccessDeniedException"}
IsClientError(ans) == ans \in {"ParameterNotFound", "AccessDeniedException"}

\* lines 154-167: the value delete_param_in_region returns
delete_param_in_region(ans) ==
    IF IsClientError(ans)
    THEN (IF ans = "ParameterNotFound" THEN "404" ELSE "404")
    ELSE IF ans = "200" THEN "200" ELSE "None"

\* line 239: the word printed after the region
DeleteLine(value) ==
    IF value = "200" THEN "Success"
    ELSE IF value = "404" THEN "Not Found" ELSE "Failed"

\* result = {}
DpInit ==
    /\ dp_in \in [region_list : DpRegionLists, param_name : DpParamNames]
    /\ dp_pc = "loop"
    /\ dp_i = 1
    /\ dp_answers = <<>>
    /\ dp_result = <<>>
    /\ dp_raised = None

\* one pass of "for region in region_list" with the call of
\* delete_param_in_region it makes
dp_Iterate ==
    /\ dp_pc = "loop"
    /\ dp_i <= Len(dp_in.region_list)
    /\ IF dp_in.region_list[dp_i] = "" \/ dp_in.param_name = ""
       THEN \* sys.exit(1), lines 141-147
            /\ dp_pc' = "exited"
            /\ dp_raised' = "SystemExit"
            /\ UNCHANGED <<dp_i, dp_answers, dp_result>>
       ELSE \E ans \in DeleteParameterAnswers :
            /\ dp_answers' = Append(dp_answers, ans)
            /\ dp_result' = setitem(dp_result, dp_in.region_list[dp_i],
                                    delete_param_in_region(ans))
            /\ dp_i' = dp_i + 1
            /\ UNCHANGED <<dp_pc, dp_raised>>
    /\ UNCHANGED <<notE, dp_in>>

\* return result
dp_Return ==
    /\ dp_pc = "loop"
    /\ dp_i > Len(dp_in.region_list)
    /\ dp_pc' = "returned"
    /\ UNCHANGED <<notE, dp_in, dp_i, dp_answers, dp_result, dp_raised>>

DpNext ==
    \/ dp_Iterate
    \/ dp_Return

(***************************************************************************)
(* Part 10 - the paginated list helpers get_all_tables_in_region           *)
(* (dynamodb.py lines 21-41), get_stack_events_in_region (cf_stack.py      *)
(* lines 81-99) and get_all_records_in_zone (r53.py lines 34-49)           *)
(***************************************************************************)
PagedHelpers == {"get_all_tables_in_region", "get_stack_events_in_region",
                 "get_all_records_in_zone"}
ItemNames == 1..MaxNames
\* a record set of a zone is identified by its name and its type; table
\* names and stack events are unique by name, written with the type 1
RecordTypes == {1, 2}
ItemsOf(helper) ==
    IF helper = "get_all_records_in_zone"
    THEN ItemNames \X RecordTypes
    ELSE ItemNames \X {1}

\* the provider lists the items in the order of name, then type
ItemBefore(a, b) == a[1] < b[1] \/ (a[1] = b[1] /\ a[2] < b[2])
Listing(S) ==
    CHOOSE L \in [1..Cardinality(S) -> S] :
        \A i, j \in 1..Cardinality(S) : i < j => ItemBefore(L[i], L[j])

\* the page of the listing that starts at position start
PageAt(L, start, size) ==
    SubSeq(L, start, IF start + size - 1 < Len(L) THEN start + size - 1
                     ELSE Len(L))

\* the continuation marker the helper reads from the answer that ends at
\* position last, 0 when the answer carries none: LastEvaluatedTableName is
\* the last name of the page, NextToken stands for the position that
\* follows, NextRecordName is the name of the record set that follows (the
\* helper does not read NextRecordType)
MarkerAfter(helper, L, last) ==
    IF last >= Len(L) THEN 0
    ELSE CASE helper = "get_all_tables_in_region" -> L[last][1]
           [] helper = "get_stack_events_in_region" -> last + 1
           [] OTHER -> L[last + 1][1]

\* the position the provider continues from for the argument the helper
\* passes: ExclusiveStartTableName is the name before the first one listed,
\* NextToken the position itself, StartRecordName without StartRecordType
\* the first record set with that name
FirstFrom(helper, L, marker) ==
    LET from(P(_)) ==
            IF \E i \in DOMAIN L : P(i)
            THEN CHOOSE i \in DOMAIN L :
                     P(i) /\ \A j \in DOMAIN L : P(j) => i <= j
            ELSE Len(L) + 1
        after(i) == L[i][1] > marker
        atOrAfter(i) == L[i][1] >= marker
    IN  CASE helper = "get_all_tables_in_region" -> from(after)
          [] helper = "get_stack_events_in_region" -> marker
          [] OTHER -> from(atOrAfter)

\* the ClientError of a call leaves get_all_tables_in_region (raise e,
\* dynamodb.py line 39); the other two log it and return what they have
ErrorLeaves(helper) == helper = "get_all_tables_in_region"

\* the helper stops asking when it has this many items
MaxCollected == 2 * MaxItems

PgInit ==
    /\ pg_in \in {[helper |-> h, region |-> r, items |-> Listing(S),
                   size |-> n] :
                     h \in PagedHelpers, r \in {"", "us-east-1"},
                     S \in {T \in SUBSET (ItemNames \X RecordTypes) :
                              Cardinality(T) <= MaxItems},
                     n \in 1..MaxPage}
    /\ pg_in.items \in Seq(ItemsOf(pg_in.helper))
    /\ pg_in.region = "" => pg_in.helper = "get_all_tables_in_region"
    /\ pg_pc = "start"
    /\ pg_collected = <<>>
    /\ pg_marker = 0
    /\ pg_calls = 0
    /\ pg_failed = FALSE

\* what one call of the provider does to the helper: it extends the list
\* with the page and reads the marker, or the call fails
pg_Call(start) ==
    \/ LET page == PageAt(pg_in.items, start, pg_in.size)
       IN  /\ pg_collected' = pg_collected \o page
           /\ pg_marker' = MarkerAfter(pg_in.helper, pg_in.items,
                                       start + Len(page) - 1)
           /\ pg_calls' = pg_calls + 1
           /\ pg_pc' = "loop"
           /\ UNCHANGED pg_failed
    \/ /\ pg_failed' = TRUE
       /\ pg_pc' = IF ErrorLeaves(pg_in.helper) THEN "raised" ELSE "returned"
       /\ UNCHANGED <<pg_collected, pg_marker, pg_calls>>

\* get_all_tables_in_region without a region: return []
pg_NoRegion ==
    /\ pg_pc = "start"
    /\ pg_in.helper = "get_all_tables_in_region"
    /\ pg_in.region = ""
    /\ pg_pc' = "returned"
    /\ UNCHANGED <<notP, pg_in, pg_collected, pg_marker, pg_calls,
                   pg_failed>>

\* the first call, without a marker
pg_First ==
    /\ pg_pc = "start"
    /\ pg_in.region # ""
    /\ pg_Call(1)
    /\ UNCHANGED <<notP, pg_in>>

\* one pass of the while loop: the call with the marker of the last answer
pg_More ==
    /\ pg_pc = "loop"
    /\ pg_marker # 0
    /\ Len(pg_collected) < MaxCollected
    /\ pg_Call(FirstFrom(pg_in.helper, pg_in.items, pg_marker))
    /\ UNCHANGED <<notP, pg_in>>

\* the last answer had no marker: return the list
pg_Return ==
    /\ pg_pc = "loop"
    /\ pg_marker = 0
    /\ pg_pc' = "returned"
    /\ UNCHANGED <<notP, pg_in, pg_collected, pg_marker, pg_calls,
                   pg_failed>>

PgNext ==
    \/ pg_NoRegion
    \/ pg_First
    \/ pg_More
    \/ pg_Return

(***************************************************************************)
(* Specifications                                                          *)
(***************************************************************************)
\* the task runner alone
InitAsync ==
    AsyncInit /\ CfOff /\ GpOff /\ UdOff /\ IocOff /\ FfOff /\ UrlOff /\ ArgsOff
        /\ WrOff /\ PgOff /\ DpOff
SpecAsync == InitAsync /\ [][AsyncNext]_vars

\* the task runner has not been used (the variables of part 1 while part 2
\* runs)
AsyncOff ==
    /\ rev = "core"
    /\ status = NOT_STARTED
    /\ result = None
    /\ exception = None
    /\ nstarts = 0
    /\ caller_pc = "off"
    /\ tasks = [t \in TaskIds |-> NoTask]
    /\ printed = 0

\* one run of a stack operation
InitCf ==
    CfInit /\ AsyncOff /\ GpOff /\ UdOff /\ IocOff /\ FfOff /\ UrlOff /\ ArgsOff
        /\ WrOff /\ PgOff /\ DpOff
SpecCf == InitCf /\ [][CfNext]_vars

\* one call of get_new_parameter_list_for_update
InitGp ==
    GpInit /\ AsyncOff /\ CfOff /\ UdOff /\ IocOff /\ FfOff /\ UrlOff /\ ArgsOff
        /\ WrOff /\ PgOff /\ DpOff
SpecGp == InitGp /\ [][GpNext]_vars

\* one call of update_document_in_region
InitUd ==
    UdInit /\ AsyncOff /\ CfOff /\ GpOff /\ IocOff /\ FfOff /\ UrlOff /\ ArgsOff
        /\ WrOff /\ PgOff /\ DpOff
SpecUd == InitUd /\ [][UdNext]_vars

\* one container and the calls made on it
InitIoc ==
    IocInit /\ AsyncOff /\ CfOff /\ GpOff /\ UdOff /\ FfOff /\ UrlOff /\ ArgsOff
        /\ WrOff /\ PgOff /\ DpOff
SpecIoc == InitIoc /\ [][IocNext]_vars

\* one call of find_files
InitFf ==
    FfInit /\ AsyncOff /\ CfOff /\ GpOff /\ UdOff /\ IocOff /\ UrlOff /\ ArgsOff
        /\ WrOff /\ PgOff /\ DpOff
SpecFf == InitFf /\ [][FfNext]_vars

\* one call of parse_s3_url
InitUrl ==
    UrlInit /\ AsyncOff /\ CfOff /\ GpOff /\ UdOff /\ IocOff /\ FfOff /\ ArgsOff
        /\ WrOff /\ PgOff /\ DpOff
SpecUrl == InitUrl /\ [][UrlNext]_vars

\* one call of parse_sysargs
InitArgs ==
    ArgsInit /\ AsyncOff /\ CfOff /\ GpOff /\ UdOff /\ IocOff /\ FfOff /\ UrlOff
        /\ WrOff /\ PgOff /\ DpOff
SpecArgs == InitArgs /\ [][ArgsNext]_vars

\* one call of a multi-region wrapper
InitWr ==
    WrInit /\ AsyncOff /\ CfOff /\ GpOff /\ UdOff /\ IocOff /\ FfOff /\ UrlOff
        /\ ArgsOff /\ PgOff /\ DpOff
SpecWr == InitWr /\ [][WrNext]_vars

\* one call of delete_paramameter
InitDp ==
    DpInit /\ AsyncOff /\ CfOff /\ GpOff /\ UdOff /\ IocOff /\ FfOff /\ UrlOff
        /\ ArgsOff /\ WrOff /\ PgOff
SpecDp == InitDp /\ [][DpNext]_vars

\* one call of a paginated list helper
InitPg ==
    PgInit /\ AsyncOff /\ CfOff /\ GpOff /\ UdOff /\ IocOff /\ FfOff /\ UrlOff
        /\ ArgsOff /\ WrOff /\ DpOff
SpecPg == InitPg /\ [][PgNext]_vars

(***************************************************************************)
(* Properties of the AsyncModule                                           *)
(***************************************************************************)
\* the caller is inside start()
InStart == caller_pc \in {"start_apply_async", "start_return"}

\* nothing more will happen to task t
Terminal(t) == tasks[t].pc \in {"done", "failed"}

\* the instance was started once and its task has been dealt with
StartedOnceAndOver == nstarts = 1 /\ ~InStart /\ Terminal(1)

\* C1: the status only moves forward, NOT_STARTED < RUNNING < DONE: it never
\* decreases and DONE is terminal, for any sequence of start() calls and
\* completion callbacks.
C1_StatusOnlyMovesForward == [][status' >= status]_vars

\* C2 (as stated): start returns with status RUNNING, and each start causes
\* run to be executed exactly once.
C2_StartReturnsWithRunning ==
    /\ [][start_Return => status = RUNNING]_vars
    /\ [](\A t \in TaskIds : tasks[t].runs <= 1)

\* C2 (amended): when start returns, the status is RUNNING unless a
\* completion callback has already set it to DONE; start never waits for the
\* task; every start submits one task, and a task is run exactly once: never
\* twice, and once as soon as it has left the queue.
C2_StartDoesNotWaitRunsOnce ==
    /\ [][start_Return =>
            \/ status = RUNNING
            \/ /\ status = DONE
               /\ \E t \in TaskIds : tasks[t].pc \in {"callback", "done"}]_vars
    /\ [](\A t \in TaskIds :
            /\ tasks[t].runs <= 1
            /\ (tasks[t].runs = 1) <=> (tasks[t].pc \notin {"none", "queued"})
            /\ (tasks[t].pc # "none") <=>
                   (t < nstarts \/ (t = nstarts /\ caller_pc # "start_apply_async")))

\* start has returned while the task it submitted is still running
C2_Witness ==
    /\ caller_pc = "idle" /\ nstarts = 1 /\ status = RUNNING
    /\ tasks[1].pc = "running" /\ tasks[1].runs = 1

\* C3: whenever the caller's poll observes DONE, the outcome of the task is
\* already stored in the result or the exception field, so a caller that
\* leaves the polling loop and then finds no exception has not missed a
\* failure of the task.
C3_OutcomeStoredWhenDoneObserved ==
    /\ (caller_pc = "poll_after_loop" /\ nstarts = 1) =>
           /\ tasks[1].pc = "done"
           /\ tasks[1].payload \in {result, exception}
    /\ (caller_pc = "poll_exited" /\ nstarts = 1) =>
           ~isinstance_Exception(tasks[1].payload)

\* C4 (as stated, for an instance of the core revision started once): if run
\* raises, the status becomes DONE, the exception field holds the error
\* wrapper and the result field is left unset.
C4_RaiseGivesDoneAndException ==
    (rev = "core" /\ StartedOnceAndOver /\ tasks[1].raised) =>
        /\ status = DONE
        /\ exception = WrappedException
        /\ result = None

\* C4 (amended, for an instance of the core revision started once): if run
\* raises and wrapping the exception succeeds, the status becomes DONE, the
\* exception field holds the error wrapper and the result field is left
\* unset.
C4_RaiseWrappedGivesDoneAndException ==
    (rev = "core" /\ StartedOnceAndOver /\ tasks[1].raised
        /\ ~tasks[1].wrapfail) =>
        /\ status = DONE
        /\ exception = WrappedException
        /\ result = None

\* run raised, the wrapper was delivered and stored
C4_Witness ==
    /\ rev = "core" /\ StartedOnceAndOver /\ tasks[1].raised
    /\ ~tasks[1].wrapfail /\ exception = WrappedException

\* C5: in every revision, once start has been called and run has terminated
\* (by returning or by raising), the status becomes DONE: when nothing more
\* can happen to any submitted task, a poll for DONE succeeds.
C5_TerminatedRunGivesDone ==
    (nstarts >= 1 /\ ~InStart /\ \A t \in 1..nstarts : Terminal(t)) =>
        status = DONE

\* C6 (as stated): after completion of an instance started once, the
\* exception field is set if and only if run raised, otherwise the result
\* field is what run returned, and the two fields are never both set.
C6_ExceptionIffRaised ==
    (StartedOnceAndOver /\ tasks[1].pc = "done") =>
        /\ (exception # None) <=> tasks[1].raised
        /\ ~tasks[1].raised => result = tasks[1].payload
        /\ ~(exception # None /\ result # None)

\* C6 (amended): after completion of an instance started once, the exception
\* field is set if and only if the object delivered to the completion
\* callback is an Exception instance (run raised and the wrapping succeeded,
\* or run returned an Exception instance); it then holds that object and the
\* result field is unset; otherwise the result field holds the delivered
\* object (the value run returned, or None after a failed wrapping).
C6_ExceptionIffExceptionDelivered ==
    (StartedOnceAndOver /\ tasks[1].pc = "done") =>
        /\ (exception # None) <=> isinstance_Exception(tasks[1].payload)
        /\ isinstance_Exception(tasks[1].payload) <=>
               \/ tasks[1].raised /\ ~tasks[1].wrapfail
               \/ ~tasks[1].raised /\ tasks[1].payload = "Exception"
        /\ exception # None => (exception = tasks[1].payload /\ result = None)
        /\ exception = None => result = tasks[1].payload
        /\ ~(exception # None /\ result # None)

\* run returned an Exception instance and it landed in the exception field
C6_Witness ==
    /\ StartedOnceAndOver /\ tasks[1].pc = "done"
    /\ ~tasks[1].raised /\ exception = "Exception"

\* C7: if wrapping the exception raised by run fails in the worker, the
\* second failure is only printed: the worker hands None to the parent as a
\* successful result, the task completes with status DONE and the exception
\* field stays unset.
C7_WrapFailureOnlyPrinted ==
    /\ \A t \in TaskIds : tasks[t].wrapfail =>
           /\ tasks[t].payload = None
           /\ tasks[t].success
           /\ tasks[t].pc # "failed"
           /\ printed >= 1
    /\ (StartedOnceAndOver /\ tasks[1].wrapfail) =>
           /\ status = DONE
           /\ exception = None
           /\ result = None

\* the wrapping failed and the task has completed
C7_Witness ==
    /\ StartedOnceAndOver /\ tasks[1].wrapfail /\ tasks[1].pc = "done"
    /\ printed = 1

\* C8: at most one task body of the instance is running at any time, for
\* any sequence of start() calls.
C8_AtMostOneTaskBodyRunning ==
    Cardinality({t \in TaskIds : tasks[t].pc = "running"}) <= 1

(***************************************************************************)
(* Properties of the stack operations                                      *)
(***************************************************************************)
\* C9: with dryrun=True none of create_stack, update_stack,
\* update_stack_in_region and _update_stack_parameters issues a mutating
\* provider call (create_stack, update_stack, delete_stack).
C9_DryrunIssuesNoMutatingCall ==
    dryrun => \A r \in RegionIds : calls[r] = {}

\* C10: if a poll after an accepted create or update saw a status containing
\* ROLLBACK, update_stack_in_region returns False for that region and the
\* command line reports the region as Failed.
C10_RollbackReturnsFalse ==
    \A r \in RegionIds :
        (rollback_seen[r] /\ region_result[r] # "absent") =>
            /\ region_result[r] = "False"
            /\ ReportLine(r) = "Failed"

\* C11: after an accepted create or update the status is polled at most
\* MAX_CHECKS times, and without a rollback the time spent sleeping never
\* exceeds the announced MAX_CHECKS * SLEEP_SECONDS seconds.
C11_AtMostMaxChecksPolls ==
    cf_pc \in {"poll", "rollback_query", "delete", "after_loop", "return"} =>
        /\ polls <= MAX_CHECKS
        /\ ~rollback_seen[region] => slept <= MAX_CHECKS * SLEEP_SECONDS

\* the operation is create_stack or update_stack, which run
\* update_stack_in_region for each region
RunsUpdateStackInRegion == op \in {"create_stack", "update_stack"}

\* the status obtained before any change is one of the cases in which the
\* function must refuse: none, an existing stack with new_stack=True, a
\* stack whose status does not end with _COMPLETE with new_stack=False
MustRefuse(stat) ==
    \/ stat = NoStatus
    \/ new_stack /\ stat # DOES_NOT_EXIST
    \/ ~new_stack /\ stat # DOES_NOT_EXIST /\ stat[Len(stat)] # "COMPLETE"

\* C22: update_stack_in_region returns None without any create_stack or
\* update_stack call when the template fails validation, when the status
\* cannot be obtained, when new_stack=True and the stack exists, and when
\* new_stack=False and the status does not end with _COMPLETE; with
\* new_stack=False and no stack it creates the stack instead of updating it.
C22_RefusalsIssueNoCall ==
    RunsUpdateStackInRegion =>
        /\ (cf_pc = "return" /\ ~stack_arn /\ MustRefuse(stack_status)) =>
               cf_result = None /\ calls[region] = {}
        /\ cf_pc = "mutate" =>
               /\ ~MustRefuse(stack_status)
               /\ create <=> stack_status = DOES_NOT_EXIST
        /\ cf_pc \in {"poll", "rollback_query", "delete", "after_loop"} =>
               calls[region] \cap {"create_stack", "update_stack"} =
                   IF create THEN {"create_stack"} ELSE {"update_stack"}

\* update_stack has refused a stack that is still cleaning up
C22_Witness ==
    /\ op = "update_stack"
    /\ cf_pc = "return"
    /\ ~stack_arn
    /\ stack_status = <<"UPDATE", "COMPLETE", "CLEANUP", "IN", "PROGRESS">>
    /\ cf_result = None
    /\ calls[region] = {}

\* C23: delete_stack is issued only for a stack that this call created and
\* whose creation rolled back; on the update path nothing is deleted.
C23_DeleteOnlyAfterOwnCreateRolledBack ==
    RunsUpdateStackInRegion =>
        \A r \in RegionIds :
            "delete_stack" \in calls[r] =>
                /\ "create_stack" \in calls[r]
                /\ "update_stack" \notin calls[r]
                /\ rollback_seen[r]

\* update_stack found no stack, created it, saw it roll back and removed it
C23_Witness ==
    /\ op = "update_stack"
    /\ \E r \in RegionIds : calls[r] = {"create_stack", "delete_stack"}

\* C24: when the attempts run out without a poll having seen COMPLETE or
\* ROLLBACK the function returns None and deletes nothing, and it returns
\* True after polling only when the last status observed contains COMPLETE.
C24_TrueOnlyAfterComplete ==
    (RunsUpdateStackInRegion /\ cf_pc = "return" /\ polls > 0) =>
        /\ (CURRENT_CHECK > MAX_CHECKS /\ ~rollback_seen[region]
               /\ ~Contains(stack_status, "COMPLETE")) =>
                   cf_result = None /\ "delete_stack" \notin calls[region]
        /\ cf_result = "True" => Contains(stack_status, "COMPLETE")

\* C25: a poll of the loop that yields no status does not make
\* update_stack_in_region raise.
C25_PollWithoutStatusDoesNotRaise ==
    (RunsUpdateStackInRegion /\ polls > 0 /\ stack_status = NoStatus) =>
        cf_raised = None /\ cf_pc # "raised"

\* C26: when the provider answers an update with "No updates are to be
\* performed", update_stack_in_region and _update_stack_parameters both
\* return a truthy value, start no polling and delete nothing, and the line
\* reported for the region is Success.
C26_NoUpdatesIsSuccess ==
    /\ (cf_pc = "return" /\ no_updates[region]) =>
           /\ Truthy(cf_result)
           /\ polls = 0
           /\ "delete_stack" \notin calls[region]
    /\ \A r \in RegionIds :
           (no_updates[r] /\ region_result[r] # "absent") =>
               ReportLine(r) = "Success"

(***************************************************************************)
(* Properties of get_new_parameter_list_for_update                         *)
(***************************************************************************)
\* no parameter named in parameter_to_change has a value containing
\* expected_value
NoValueContainsExpected ==
    \A i \in DOMAIN gp_in.Parameters :
        gp_in.Parameters[i].ParameterKey \in gp_in.parameter_to_change =>
            ~IsSubstring(gp_in.expected_value,
                         gp_in.Parameters[i].ParameterValue)

\* C12: with force=False, when no parameter whose key is in
\* parameter_to_change has a value containing expected_value, the function
\* returns update_required=False and a list with one entry per parameter of
\* the stack, none carrying the new value: each has UsePreviousValue=True.
C12_NoMatchNoUpdate ==
    (gp_pc = "returned" /\ ~gp_in.force /\ NoValueContainsExpected) =>
        /\ update_required = FALSE
        /\ Len(new_parameters_list) = Len(gp_in.Parameters)
        /\ \A i \in DOMAIN new_parameters_list :
               /\ DOMAIN new_parameters_list[i] =
                      {"ParameterKey", "UsePreviousValue"}
               /\ new_parameters_list[i].UsePreviousValue = TRUE
               /\ new_parameters_list[i].ParameterKey =
                      gp_in.Parameters[i].ParameterKey

\* the call has returned for a stack with a parameter that is named in
\* parameter_to_change and whose value does not contain expected_value
C12_Witness ==
    /\ gp_pc = "returned" /\ ~gp_in.force /\ NoValueContainsExpected
    /\ \E i \in DOMAIN gp_in.Parameters :
           /\ gp_in.Parameters[i].ParameterKey \in gp_in.parameter_to_change
           /\ IsSubstring(gp_in.Parameters[i].ParameterValue,
                          gp_in.expected_value)
    /\ Len(new_parameters_list) = MaxParams
(***************************************************************************)
(* Properties of update_document_in_region                                 *)
(***************************************************************************)
\* C13: when the provider's update call fails with a client error other than
\* duplicate content, update_document_in_region returns False and raises
\* nothing.
ProviderErrorNotDuplicate ==
    /\ ud_calls > 0
    /\ ud_in.answer.kind = "ClientError"
    /\ ud_in.answer.detail # DuplicateDocumentContent

C13_ProviderErrorReturnsFalse ==
    (ud_pc \in {"returned", "raised"} /\ ProviderErrorNotDuplicate) =>
        /\ ud_pc = "returned"
        /\ ud_return = "False"
        /\ ud_raised = None

(***************************************************************************)
(* Properties of SingleObjectContainer                                     *)
(***************************************************************************)
\* every object held is an instance of object_type
HeldObjectsAreInstances ==
    \A id \in DOMAIN objects :
        object_type \in Types /\ Subclass(objects[id].type, object_type)

\* object_type gets its value from the constructor or, when the constructor
\* left it None, from the first object registered, and keeps it
ObjectTypeSetOnce ==
    /\ object_type # None => object_type' = object_type
    /\ (object_type = None /\ object_type' # None) =>
           \/ ioc_call'.method = "__init__"
           \/ /\ ioc_call'.method = "register"
              /\ DOMAIN objects = {}
              /\ ioc_raised' = None
              /\ object_type' = ioc_call'.obj.type
              /\ DOMAIN objects' = {ioc_call'.id}

\* C14: after any sequence of register and deregister calls every object
\* held by the container is an instance of object_type; object_type is the
\* type given at construction or, when none was given, the type of the first
\* object registered, and once set it never changes.
C14_HeldObjectsHaveObjectType ==
    []HeldObjectsAreInstances /\ [][ObjectTypeSetOnce]_vars

\* a container of Module holds an AsyncModule and has just refused an
\* AsyncException
C14_Witness ==
    /\ object_type = "Module"
    /\ \E id \in DOMAIN objects : objects[id].type = "AsyncModule"
    /\ ioc_call.method = "register"
    /\ ioc_call.obj.type = "AsyncException"
    /\ ioc_raised = "TypeError"

\* the container takes obj: it is not None and an instance of object_type
Accepts(obj) ==
    /\ obj # NoneObj
    /\ object_type \in Types
    /\ Subclass(obj.type, object_type)

\* a call of register, deregister or unregister that raises leaves the
\* registered ids, their objects and object_type as they were
RejectedChangesNothing ==
    (ioc_call'.method \in {"register", "deregister", "unregister"}
        /\ ioc_raised' # None) =>
            /\ DOMAIN objects' = DOMAIN objects
            /\ \A id \in DOMAIN objects : objects'[id] = objects[id]
            /\ object_type' = object_type

\* deregister and unregister of an id that is not registered raise ValueError
UnknownIdRaisesValueError ==
    (ioc_call'.method \in {"deregister", "unregister"}
        /\ ioc_call'.id \notin DOMAIN objects) => ioc_raised' = "ValueError"

\* C15 as stated: register with an id that is already registered raises
\* ValueError, deregister and unregister of an id that is not registered
\* raise ValueError, and the rejected call changes nothing.
C15_DuplicateIdRaisesValueError ==
    [][/\ RejectedChangesNothing
       /\ UnknownIdRaisesValueError
       /\ (ioc_call'.method = "register"
              /\ ioc_call'.id \in DOMAIN objects) =>
                  ioc_raised' = "ValueError"]_vars

\* C15, amended: register with an id that is already registered and an
\* object the container accepts raises ValueError (an object it does not
\* accept is refused with TypeError before the id is looked at), deregister
\* and unregister of an id that is not registered raise ValueError, and every
\* rejected call leaves the registered ids, their objects and object_type
\* unchanged.
C15_RejectedCallChangesNothing ==
    [][/\ RejectedChangesNothing
       /\ UnknownIdRaisesValueError
       /\ (ioc_call'.method = "register"
              /\ ioc_call'.id \in DOMAIN objects) =>
                  ioc_raised' = IF Accepts(ioc_call'.obj)
                                THEN "ValueError" ELSE "TypeError"]_vars

\* register has just refused another object for an id that is taken
C15_Witness ==
    /\ ioc_call.method = "register"
    /\ ioc_raised = "ValueError"
    /\ ioc_call.id \in DOMAIN objects
    /\ objects[ioc_call.id] # ioc_call.obj

\* the step is a successful deregister or unregister of id
Deregisters(id) ==
    /\ ioc_call'.method \in {"deregister", "unregister"}
    /\ ioc_call'.id = id
    /\ ioc_raised' = None

\* C16: after a successful register(id, obj), get(id) and container[id]
\* return that same obj whatever is done with other ids, until deregister(id);
\* after deregister(id), get(id) raises KeyError and the id can be registered
\* again.
C16_RegisteredObjectStaysUntilDeregistered ==
    [][/\ (ioc_call'.method = "register" /\ ioc_raised' = None) =>
              /\ ioc_call'.id \in DOMAIN objects'
              /\ objects'[ioc_call'.id] = ioc_call'.obj
       /\ \A id \in DOMAIN objects :
              IF Deregisters(id)
              THEN id \notin DOMAIN objects'
              ELSE id \in DOMAIN objects' /\ objects'[id] = objects[id]
       /\ ioc_call'.method \in {"get", "__getitem__"} =>
              IF ioc_call'.id \in DOMAIN objects
              THEN /\ ioc_raised' = None
                   /\ ioc_returned' = objects[ioc_call'.id]
              ELSE ioc_raised' = "KeyError"
       /\ (ioc_call'.method = "register"
              /\ ioc_call'.id \in Ids \ DOMAIN objects
              /\ ioc_call'.obj # NoneObj
              /\ (object_type = None \/ Accepts(ioc_call'.obj))) =>
                  ioc_raised' = None]_vars

\* get has returned the object of an id while another id holds an object
\* created later
C16_Witness ==
    /\ ioc_call.method = "get"
    /\ ioc_raised = None
    /\ ioc_call.id \in DOMAIN objects
    /\ ioc_returned = objects[ioc_call.id]
    /\ \E other \in DOMAIN objects :
           other # ioc_call.id /\ objects[other].oid > ioc_returned.oid

\* C17: getinstance(id) returns a new object of the same type as the object
\* registered under id, distinct from it and from every other object, and
\* leaves the container unchanged; for an id that is not registered it raises
\* ValueError.
C17_GetinstanceReturnsNewObject ==
    [][ioc_call'.method = "getinstance" =>
          /\ objects' = objects
          /\ object_type' = object_type
          /\ IF ioc_call'.id \in DOMAIN objects
             THEN /\ ioc_raised' = None
                  /\ ioc_returned'.type = objects[ioc_call'.id].type
                  /\ ioc_returned' \notin HeldObjects
                  /\ ioc_returned'.oid >= next_oid
             ELSE ioc_raised' = "ValueError"]_vars

\* getinstance has returned a second AsyncModule
C17_Witness ==
    /\ ioc_call.method = "getinstance"
    /\ ioc_raised = None
    /\ ioc_call.id \in DOMAIN objects
    /\ ioc_returned.type = "AsyncModule"
    /\ objects[ioc_call.id].type = "AsyncModule"
    /\ ioc_returned # objects[ioc_call.id]

(***************************************************************************)
(* Properties of find_files                                                *)
(***************************************************************************)
\* C18: find_files never returns a key ending with '/', in case sensitive
\* mode as well as in case insensitive mode, and every returned key starts
\* with the prefix (compared ignoring case in case insensitive mode).
C18_OnlyFileKeysReturned ==
    ff_pc = "returned" =>
        \A i \in DOMAIN files :
            /\ ~EndsWith(files[i], <<"/">>)
            /\ IF ff_in.case_sensitive
               THEN StartsWith(files[i], ff_in.prefix)
               ELSE StartsWith(lower(files[i]), lower(ff_in.prefix))

(***************************************************************************)
(* Properties of parse_s3_url                                              *)
(***************************************************************************)
\* position in url[5:] of the first '/', or one past its end
FirstSlash ==
    LET rest == url_tail(url)
        slashes == {i \in DOMAIN rest : rest[i] = "/"}
    IN IF slashes = {} THEN Len(rest) + 1
       ELSE CHOOSE i \in slashes : \A j \in slashes : i <= j

\* the text between 's3://' and the first '/' that follows
TextBeforeFirstSlash == SubSeq(url_tail(url), 1, FirstSlash - 1)

\* everything after that '/'
TextAfterFirstSlash ==
    SubSeq(url_tail(url), FirstSlash + 1, Len(url_tail(url)))

\* C19: parse_s3_url returns (bucket, prefix), bucket being the text between
\* 's3://' and the first following '/' and prefix everything after that '/',
\* an empty prefix being returned as '/'; a url that does not start with
\* 's3://' or has an empty bucket raises ValueError.
C19_UrlSplitAtFirstSlash ==
    pu_pc \in {"returned", "raised"} =>
        IF ~StartsWith(url, S3Scheme) \/ TextBeforeFirstSlash = <<>>
        THEN pu_pc = "raised" /\ pu_raised = "ValueError"
        ELSE /\ pu_pc = "returned"
             /\ pu_raised = None
             /\ bucket = TextBeforeFirstSlash
             /\ prefix = IF TextAfterFirstSlash = <<>> THEN <<"/">>
                         ELSE TextAfterFirstSlash

\* s3://b/c has been split into b and c
C19_Witness ==
    /\ pu_pc = "returned"
    /\ url = S3Scheme \o <<"b", "/", "c">>
    /\ bucket = <<"b">>
    /\ prefix = <<"c">>

(***************************************************************************)
(* Properties of parse_sysargs                                             *)
(***************************************************************************)
\* the positions of the tokens that start with '-'
OptionPositions == {i \in DOMAIN argv : IsOption(argv[i])}

\* the last position at which the option named key occurs
LastOccurrence(key) ==
    CHOOSE i \in OptionPositions :
        /\ lstrip(argv[i]) = key
        /\ \A j \in OptionPositions : lstrip(argv[j]) = key => j <= i

\* the token that follows position i when it is not an option, else None
FollowingValue(i) ==
    IF i < Len(argv) /\ ~IsOption(argv[i + 1]) THEN <<argv[i + 1]>> ELSE <<>>

\* the tokens up to position n that are not options and do not follow one
RECURSIVE PlainTokens(_)
PlainTokens(n) ==
    IF n = 0 THEN <<>>
    ELSE IF ~IsOption(argv[n]) /\ (n = 1 \/ ~IsOption(argv[n - 1]))
         THEN Append(PlainTokens(n - 1), argv[n])
         ELSE PlainTokens(n - 1)

\* C20 as stated: every token that starts with '-' becomes a key of kwargs, leading
\* dashes stripped; a key maps to the token that follows its last occurrence
\* when that token does not start with '-', and to None when its last
\* occurrence is followed by another option or by nothing; every other token
\* that does not follow an option is appended to args, in order.
C20_KeyMapsToValueAfterLastOccurrence ==
    ps_pc = "returned" =>
        /\ DOMAIN kwargs = {lstrip(argv[i]) : i \in OptionPositions}
        /\ \A key \in DOMAIN kwargs :
               kwargs[key] = FollowingValue(LastOccurrence(key))
        /\ args = PlainTokens(Len(argv))

\* the positions at which the option named key occurs
Occurrences(key) == {i \in OptionPositions : lstrip(argv[i]) = key}

\* the occurrence that decides the value of key: the last one that has a
\* token after it, or the only one
DecidingOccurrence(key) ==
    LET followed == Occurrences(key) \ {Len(argv)}
    IN IF followed = {} THEN Len(argv)
       ELSE CHOOSE i \in followed : \A j \in followed : j <= i

\* C20, amended: every token that starts with '-' becomes a key of kwargs,
\* leading dashes stripped; a key maps to the token that follows its last
\* occurrence when that token does not start with '-', and to None when its
\* last occurrence is followed by another option; an occurrence that is the
\* last token gives None only to a key that has no earlier occurrence, and
\* otherwise leaves the key with what its previous occurrence gave it; every
\* other token that does not follow an option is appended to args, in order.
C20_TrailingOptionKeepsEarlierValue ==
    ps_pc = "returned" =>
        /\ DOMAIN kwargs = {lstrip(argv[i]) : i \in OptionPositions}
        /\ \A key \in DOMAIN kwargs :
               kwargs[key] = FollowingValue(DecidingOccurrence(key))
        /\ args = PlainTokens(Len(argv))

\* -a aa -a has been parsed: a keeps aa
C20_Witness ==
    /\ ps_pc = "returned"
    /\ argv = <<<<"-", "a">>, <<"a", "a">>, <<"-", "a">>>>
    /\ kwargs[<<"a">>] = <<<<"a", "a">>>>
    /\ args = <<>>

(***************************************************************************)
(* Properties of the multi-region wrappers                                 *)
(***************************************************************************)
\* C21: the mapping a multi-region wrapper returns has exactly the regions
\* of region_list as its keys, for query_stack_status, get_parameter,
\* table_exists and create_table, whatever the provider holds.
C21_OneOutcomePerRegion ==
    wr_pc = "returned" =>
        DOMAIN wr_result = {region_list[i] : i \in DOMAIN region_list}

(***************************************************************************)
(* Properties of the parameter deletion                                    *)
(***************************************************************************)
\* C28: delete_param_in_region returns 404 exactly when the provider
\* reported that the parameter does not exist; any other provider error
\* is reported as a failure distinct from not-found, and the command line
\* prints "Failed" for it, not "Not Found".
C28_NotFoundOnlyWhenReported ==
    (dp_pc = "loop" /\ dp_i > 1) =>
        LET ans == dp_answers[dp_i - 1]
            value == dp_result[dp_in.region_list[dp_i - 1]]
        IN  /\ value = "404" <=> ans = "ParameterNotFound"
            /\ (IsClientError(ans) /\ ans # "ParameterNotFound")
                   => DeleteLine(value) = "Failed"

(***************************************************************************)
(* Properties of the paginated list helpers                                *)
(***************************************************************************)
\* C27: a paginated list helper returns the items of all pages in order,
\* each item exactly once: what it has collected is at every moment the
\* beginning of the provider's listing, and the list it returns after the
\* provider answered every call is the whole listing.
C27_AllPagesInOrderOnce ==
    /\ Len(pg_collected) <= Len(pg_in.items)
           /\ pg_collected = SubSeq(pg_in.items, 1, Len(pg_collected))
    /\ (pg_pc = "returned" /\ pg_calls > 0 /\ ~pg_failed)
           => pg_collected = pg_in.items

====
